---- MODULE Spec2Model ----
(***************************************************************************)
(* Model of the kiri protocol codec (protocol/src/lib.rs), the CSMA access *)
(* strategy (csma/src/lib.rs) and the simulated serial bus                 *)
(* (simulation/src).                                                       *)
(***************************************************************************)
EXTENDS Integers, Sequences, FiniteSets, TLC

(***************************************************************************)
(* Bytes and bit arithmetic                                                *)
(***************************************************************************)
Byte == 0..255

RECURSIVE Xor(_, _)
Xor(a, b) ==
    IF a = 0 THEN b
    ELSE IF b = 0 THEN a
    ELSE (((a % 2) + (b % 2)) % 2) + 2 * Xor(a \div 2, b \div 2)

RECURSIVE Or(_, _)
Or(a, b) ==
    IF a = 0 THEN b
    ELSE IF b = 0 THEN a
    ELSE (IF (a % 2) = 1 \/ (b % 2) = 1 THEN 1 ELSE 0) + 2 * Or(a \div 2, b \div 2)

Min(a, b) == IF a <= b THEN a ELSE b

(***************************************************************************)
(* protocol/src/lib.rs: constants                                          *)
(***************************************************************************)
COBS_MARKER == 0
CHECKSUM_LEN == 2
MAGIC_LEN == 2
MAGIC_WORD == <<107, 73>>
HEADER_LEN == 4
MAX_MESSAGE_LEN == 1006
MAX_NAKED_LEN == MAGIC_LEN + HEADER_LEN + MAX_MESSAGE_LEN + CHECKSUM_LEN
MIN_NAKED_LEN == MAGIC_LEN + HEADER_LEN + CHECKSUM_LEN
ADDRESS_UNICAST == 1023

cobs_max_encoding_length(source_len) ==
    source_len + (source_len \div 254) + (IF (source_len % 254) > 0 THEN 1 ELSE 0)

\* A buffer one byte longer.
MAX_FRAME_LEN_long == cobs_max_encoding_length(MAX_NAKED_LEN) + 2

\* A buffer one byte shorter.
MAX_FRAME_LEN_short == cobs_max_encoding_length(MAX_NAKED_LEN)

MAX_FRAME_LEN == cobs_max_encoding_length(MAX_NAKED_LEN) + 1

(***************************************************************************)
(* CRC-16/IBM-SDLC (CHECKSUM): reflected polynomial 0x8408, init 0xFFFF,   *)
(* xorout 0xFFFF.                                                          *)
(***************************************************************************)
RECURSIVE CrcShift(_, _)
CrcShift(crc, n) ==
    IF n = 0 THEN crc
    ELSE CrcShift(IF (crc % 2) = 1 THEN Xor(crc \div 2, 33800) ELSE crc \div 2, n - 1)

\* The lookup table of the reflected algorithm, one entry per byte.
CrcTable == [b \in Byte |-> CrcShift(b, 8)]

\* One byte of Digest::update.
CrcStep(crc, byte) == Xor(CrcTable[Xor(crc, byte) % 256], crc \div 256)

\* Digest::update over bytes[lo .. hi], in the order of the bytes; the range
\* is halved so that long inputs need no deep recursion.
RECURSIVE CrcUpdate(_, _, _, _)
CrcUpdate(crc, bytes, lo, hi) ==
    IF lo > hi THEN crc
    ELSE IF lo = hi THEN CrcStep(crc, bytes[lo])
    ELSE CHOOSE r \in { CrcUpdate(c, bytes, ((lo + hi) \div 2) + 1, hi) :
                            c \in { CrcUpdate(crc, bytes, lo, (lo + hi) \div 2) } } : TRUE

CHECKSUM(bytes) ==
    CHOOSE r \in { Xor(CrcUpdate(65535, b, 1, Len(b)), 65535) : b \in {bytes} } : TRUE

u16_to_be_bytes(v) == << v \div 256, (v % 256) >>
u16_from_be_bytes(b) == b[1] * 256 + b[2]

(***************************************************************************)
(* Header: 10 bits source, 10 bits destination, 10 bits length, 2 reserved, *)
(* most significant bit first.                                             *)
(***************************************************************************)
Header(src, dst, len) == [address_src |-> src, address_dst |-> dst, len |-> len]

\* pack() with the destination field placed one bit too low.
Header_pack_shifted(h) ==
    << h.address_src \div 4,
       (h.address_src % 4) * 64 + (h.address_dst \div 32),
       (h.address_dst % 16) * 16 + (h.len \div 64),
       (h.len % 64) * 4 >>

\* pack(): the 32 bits cut into bytes, first byte first.
Header_pack(h) ==
    << h.address_src \div 4,
       (h.address_src % 4) * 64 + (h.address_dst \div 16),
       (h.address_dst % 16) * 16 + (h.len \div 64),
       (h.len % 64) * 4 >>

\* unpack(): the reserved bits are dropped.
Header_unpack(b) ==
    Header(b[1] * 4 + (b[2] \div 64),
           (b[2] % 64) * 16 + (b[3] \div 16),
           (b[3] % 16) * 64 + (b[4] \div 4))

\* convert_primitive into a 10 bit integer: the value with the high bits cut
\* off must equal the value.
convert_primitive(i) == [ok |-> (i % 1024) = i, val |-> i % 1024]

(***************************************************************************)
(* COBS (cobs crate): streaming encoder used by the Writer, in-place       *)
(* decoder used by the Reader.                                             *)
(***************************************************************************)
CobsEncoder_new == [dest |-> <<0>>, code_idx |-> 0, num_bt_sent |-> 1, ok |-> TRUE]

\* dest holds the bytes written so far, dest[i + 1] being index i of the
\* output buffer; Len(dest) is dest_idx.  cap is the buffer's length.
CobsEncoder_push1(e, x, cap) ==
    IF ~e.ok THEN e
    ELSE IF x = 0 THEN
        IF e.code_idx >= cap THEN [e EXCEPT !.ok = FALSE]
        ELSE [dest |-> Append([e.dest EXCEPT ![e.code_idx + 1] = e.num_bt_sent], 0),
              code_idx |-> Len(e.dest), num_bt_sent |-> 1, ok |-> TRUE]
    ELSE IF e.num_bt_sent + 1 = 255 THEN
        IF e.code_idx >= cap \/ Len(e.dest) >= cap THEN [e EXCEPT !.ok = FALSE]
        ELSE [dest |-> Append(Append([e.dest EXCEPT ![e.code_idx + 1] = 255], x), 0),
              code_idx |-> Len(e.dest) + 1, num_bt_sent |-> 1, ok |-> TRUE]
    ELSE
        IF Len(e.dest) >= cap THEN [e EXCEPT !.ok = FALSE]
        ELSE [e EXCEPT !.dest = Append(e.dest, x), !.num_bt_sent = e.num_bt_sent + 1]

\* push over data[lo .. hi], byte after byte; the range is halved so that
\* long inputs need no deep recursion.
RECURSIVE CobsEncoder_pushFrom(_, _, _, _, _)
CobsEncoder_pushFrom(e, data, lo, hi, cap) ==
    IF lo > hi THEN e
    ELSE IF lo = hi THEN CobsEncoder_push1(e, data[lo], cap)
    ELSE CHOOSE r \in { CobsEncoder_pushFrom(h, data, ((lo + hi) \div 2) + 1, hi, cap) :
                            h \in { CobsEncoder_pushFrom(e, data, lo, (lo + hi) \div 2, cap) } } :
                TRUE

CobsEncoder_push(e, data, cap) ==
    CHOOSE r \in { CobsEncoder_pushFrom(h, d, 1, Len(d), cap) : h \in {e}, d \in {data} } : TRUE

\* finalize that leaves the last code byte as it is.
CobsEncoder_finalize_no_code(e, cap) ==
    IF Len(e.dest) = 1 THEN [len |-> 0, dest |-> <<>>]
    ELSE [len |-> Len(e.dest), dest |-> e.dest]

\* finalize: the length of the encoding and the finished buffer contents.
CobsEncoder_finalize(e, cap) ==
    IF Len(e.dest) = 1 THEN [len |-> 0, dest |-> <<>>]
    ELSE [len |-> Len(e.dest),
          dest |-> IF e.code_idx < cap /\ e.code_idx < Len(e.dest)
                   THEN [e.dest EXCEPT ![e.code_idx + 1] = e.num_bt_sent]
                   ELSE e.dest]

\* The decoder's turn without the zero that ends a block.
cobs_decode_block_no_zero(buf, st) ==
    IF st.done THEN st
    ELSE IF st.si > Len(buf) THEN [st EXCEPT !.done = TRUE]
    ELSE LET si   == st.si
             code == buf[si]
         IN  IF (si - 1) + code > Len(buf) /\ code # 1
             THEN [si |-> si, out |-> <<>>, ok |-> FALSE, done |-> TRUE]
             ELSE LET nsi  == si + (IF code = 0 THEN 1 ELSE code)
                      data == IF code >= 2 THEN SubSeq(buf, si + 1, si + code - 1) ELSE <<>>
                  IN  [si |-> nsi, out |-> st.out \o data, ok |-> TRUE, done |-> FALSE]

\* One turn of the decoder's loop: the block that starts at index si.
cobs_decode_block(buf, st) ==
    IF st.done THEN st
    ELSE IF st.si > Len(buf) THEN [st EXCEPT !.done = TRUE]
    ELSE LET si   == st.si
             code == buf[si]
         IN  IF (si - 1) + code > Len(buf) /\ code # 1
             THEN [si |-> si, out |-> <<>>, ok |-> FALSE, done |-> TRUE]
             ELSE LET nsi  == si + (IF code = 0 THEN 1 ELSE code)
                      data == IF code >= 2 THEN SubSeq(buf, si + 1, si + code - 1) ELSE <<>>
                  IN  [si |-> nsi,
                       out |-> IF code # 255 /\ nsi <= Len(buf)
                               THEN Append(st.out \o data, 0) ELSE st.out \o data,
                       ok |-> TRUE, done |-> FALSE]

\* n turns of the loop, in order; n is halved so that long inputs need no
\* deep recursion.
RECURSIVE cobs_decode_from(_, _, _)
cobs_decode_from(buf, st, n) ==
    IF n = 0 THEN st
    ELSE IF n = 1 THEN cobs_decode_block(buf, st)
    ELSE CHOOSE r \in { cobs_decode_from(buf, h, n - (n \div 2)) :
                            h \in { cobs_decode_from(buf, st, n \div 2) } } : TRUE

\* The loop makes at most one turn per byte, and one more finds the end.
cobs_decode_in_place(buf) ==
    CHOOSE r \in { [ok |-> d.ok, out |-> d.out] :
                    d \in { cobs_decode_from(b, [si |-> 1, out |-> <<>>, ok |-> TRUE,
                                                 done |-> FALSE], Len(b) + 1) :
                            b \in {buf} } } : TRUE

(***************************************************************************)
(* Writer::package                                                         *)
(***************************************************************************)
\* The end of package: finalize and the sentinel.
Writer_package_finalize(c, fin) ==
    IF ~c.ok THEN [ok |-> FALSE, err |-> "TooLong", frame |-> <<>>]
    ELSE IF fin.len < MAX_FRAME_LEN
         THEN [ok |-> TRUE, err |-> "None",
               frame |-> Append(SubSeq(fin.dest, 1, fin.len), COBS_MARKER)]
         ELSE [ok |-> FALSE, err |-> "TooLong", frame |-> <<>>]

\* The pushes of package: magic word, header, contents, checksum.  A failed
\* push of the magic word or the header cannot happen with this buffer; a
\* failed push of the contents or the checksum is TooLong.
Writer_package_push(header_buf, contents, crc) ==
    CHOOSE r \in { Writer_package_finalize(c4, CobsEncoder_finalize(c4, MAX_FRAME_LEN)) :
                    c4 \in { CobsEncoder_push(
                                CobsEncoder_push(
                                    CobsEncoder_push(
                                        CobsEncoder_push(CobsEncoder_new, MAGIC_WORD,
                                                         MAX_FRAME_LEN),
                                        header_buf, MAX_FRAME_LEN),
                                    contents, MAX_FRAME_LEN),
                                u16_to_be_bytes(crc), MAX_FRAME_LEN) } } : TRUE

Writer_package(src, dst, contents) ==
    LET len == convert_primitive(Len(contents))
    IN  IF ~len.ok THEN [ok |-> FALSE, err |-> "TooLong", frame |-> <<>>]
        ELSE CHOOSE r \in { Writer_package_push(hb, contents,
                                    CHECKSUM(MAGIC_WORD \o hb \o contents)) :
                            hb \in { Header_pack(Header(src, dst, len.val)) } } : TRUE

(***************************************************************************)
(* Reader                                                                  *)
(***************************************************************************)
\* buf holds the bytes stored since the cursor was last reset: buf[i + 1] is
\* index i of the array and Len(buf) = ptr.
Reader_new == [buf |-> <<>>, ptr |-> 0]

Reader_clear(r) == [buf |-> <<>>, ptr |-> 0]

NoFrame == [header |-> Header(0, 0, 0), contents |-> <<>>]
ReadResult(kind) == [kind |-> kind, frame |-> NoFrame]

\* TryInto<FrameOwned> for FrameRef: Vec::from_slice fails when the contents
\* do not fit MAX_MESSAGE_LEN bytes.
FrameRef_try_into(fr) ==
    [ok |-> Len(fr.contents) <= MAX_MESSAGE_LEN, header |-> fr.header, contents |-> fr.contents]

\* The checks in front of a COBS marker without the comparison of the
\* checksums.
Reader_decode_no_checksum(raw) ==
    LET dec == cobs_decode_in_place(raw)
    IN  IF ~dec.ok THEN ReadResult("FrameErrorCobs")
        ELSE IF Len(dec.out) < MIN_NAKED_LEN THEN ReadResult("FrameErrorSize")
        ELSE
        LET body        == SubSeq(dec.out, 1, Len(dec.out) - CHECKSUM_LEN)
            magic_buf   == SubSeq(body, 1, MAGIC_LEN)
            header_buf  == SubSeq(body, MAGIC_LEN + 1, MAGIC_LEN + HEADER_LEN)
            content_buf == SubSeq(body, MAGIC_LEN + HEADER_LEN + 1, Len(body))
            header      == Header_unpack(header_buf)
        IN  IF magic_buf # MAGIC_WORD THEN ReadResult("FrameErrorHeader")
            ELSE IF Len(content_buf) # header.len THEN ReadResult("FrameErrorSize")
            ELSE [kind |-> "FrameOK",
                  frame |-> [header |-> header, contents |-> content_buf]]

\* The checks made on the bytes in front of a COBS marker.
Reader_decode(raw) ==
    LET dec == cobs_decode_in_place(raw)
    IN  IF ~dec.ok THEN ReadResult("FrameErrorCobs")
        ELSE IF Len(dec.out) < MIN_NAKED_LEN THEN ReadResult("FrameErrorSize")
        ELSE
        LET n            == Len(dec.out)
            body         == SubSeq(dec.out, 1, n - CHECKSUM_LEN)
            checksum_buf == SubSeq(dec.out, n - CHECKSUM_LEN + 1, n)
        IN  IF u16_from_be_bytes(checksum_buf) # CHECKSUM(body)
            THEN ReadResult("FrameErrorChecksum")
            ELSE
            LET magic_buf   == SubSeq(body, 1, MAGIC_LEN)
                header_buf  == SubSeq(body, MAGIC_LEN + 1, MAGIC_LEN + HEADER_LEN)
                content_buf == SubSeq(body, MAGIC_LEN + HEADER_LEN + 1, Len(body))
                header      == Header_unpack(header_buf)
            IN  IF magic_buf # MAGIC_WORD THEN ReadResult("FrameErrorHeader")
                ELSE IF Len(content_buf) # header.len THEN ReadResult("FrameErrorSize")
                ELSE [kind |-> "FrameOK",
                      frame |-> [header |-> header, contents |-> content_buf]]

\* Reader::feed: the reader after the call and the result of the call.
Reader_feed(r, byte) ==
    LET old_ptr   == r.ptr
        new_ptr   == Min(r.ptr + 1, MAX_FRAME_LEN)
        overflown == old_ptr = new_ptr
    IN  IF overflown THEN [reader |-> r, result |-> ReadResult("Overflow")]
        ELSE IF byte = COBS_MARKER
             THEN [reader |-> Reader_clear(r), result |-> Reader_decode(r.buf)]
             ELSE [reader |-> [buf |-> Append(r.buf, byte), ptr |-> new_ptr],
                   result |-> ReadResult("NotYet")]

(***************************************************************************)
(* csma/src/lib.rs: CsmaFrameInProgress                                    *)
(***************************************************************************)
CsmaFrameInProgress_new(frame) == [frame |-> frame, send_ptr |-> 0, receive_ptr |-> 0]

CsmaFrameInProgress_reset(f) == [f EXCEPT !.send_ptr = 0, !.receive_ptr = 0]

NoByte == -1

\* frame.as_slice().get(send_ptr): the byte, or NoByte for None.
peek_for_send(f) == IF f.send_ptr < Len(f.frame) THEN f.frame[f.send_ptr + 1] ELSE NoByte

\* notify_send stepping over a byte.
notify_send_skip(f) == [f EXCEPT !.send_ptr = f.send_ptr + 2]

notify_send(f) == [f EXCEPT !.send_ptr = f.send_ptr + 1]

\* feed_as_check comparing the new receive_ptr with send_ptr instead of the
\* frame's length.
feed_as_check_upto_sent(f, b) ==
    IF f.receive_ptr < Len(f.frame) /\ f.frame[f.receive_ptr + 1] = b
    THEN [frame |-> [f EXCEPT !.receive_ptr = f.receive_ptr + 1],
          res   |-> IF f.receive_ptr + 1 = f.send_ptr THEN "OkTrue" ELSE "OkFalse"]
    ELSE [frame |-> f, res |-> "Err"]

\* res is "OkTrue", "OkFalse" or "Err".
feed_as_check(f, b) ==
    IF f.receive_ptr < Len(f.frame) /\ f.frame[f.receive_ptr + 1] = b
    THEN [frame |-> [f EXCEPT !.receive_ptr = f.receive_ptr + 1],
          res   |-> IF f.receive_ptr + 1 = Len(f.frame) THEN "OkTrue" ELSE "OkFalse"]
    ELSE [frame |-> f, res |-> "Err"]

(***************************************************************************)
(* csma/src/lib.rs: CsmaStrategy                                           *)
(***************************************************************************)
WaitForBusIdle == [name |-> "WaitForBusIdle", ready_at |-> 0]
BusIdleCooldown(ready_at) == [name |-> "BusIdleCooldown", ready_at |-> ready_at]
StartSend == [name |-> "StartSend", ready_at |-> 0]
Sending == [name |-> "Sending", ready_at |-> 0]
ConfirmingSendWithoutErrors == [name |-> "ConfirmingSendWithoutErrors", ready_at |-> 0]

StateNames == {"WaitForBusIdle", "BusIdleCooldown", "StartSend", "Sending",
               "ConfirmingSendWithoutErrors"}

CsmaStrategy_new ==
    [reader |-> Reader_new, state |-> WaitForBusIdle, stats |-> [frame_errors |-> 0]]

\* What a call asks of its transceiver, clock and random source.  rd is the
\* outcome of read(): [kind |-> "Byte", byte |-> b], or kind "WouldBlock",
\* "FrameError" or "UnderlyingError" (with err).  tr.idle is what
\* bus_is_idle() reports, tr.write the outcome of write() ("Ok", "WouldBlock"
\* or "Other"), tr.dur the sampled idle duration, tr.err the error of a
\* failing write.
ReadByte(b) == [kind |-> "Byte", byte |-> b, err |-> 0]
ReadWouldBlock == [kind |-> "WouldBlock", byte |-> NoByte, err |-> 0]
ReadFrameError == [kind |-> "FrameError", byte |-> NoByte, err |-> 0]
ReadUnderlyingError(e) == [kind |-> "UnderlyingError", byte |-> NoByte, err |-> e]

\* What a call did besides changing the strategy and the frame: the byte it
\* handed to write() with outcome Ok (or NoByte), whether it cleared the
\* reader, fed the drained byte to the reader, reset the frame, and the
\* outcome of the loopback check.
NoFx == [wrote |-> NoByte, tried |-> NoByte, cleared |-> FALSE, fed |-> FALSE,
         reset |-> FALSE, check |-> "None", idle |-> "NotAsked", sampled |-> FALSE]

Ret(kind) == [kind |-> kind, frame |-> NoFrame, err |-> 0]

\* handle_send which starts to send without asking whether the bus is idle.
handle_send_no_sense(cs, f, tr, now) ==
    CASE cs.state.name = "WaitForBusIdle" ->
            [strategy |-> IF tr.idle
                          THEN [cs EXCEPT !.state = BusIdleCooldown(now + tr.dur)]
                          ELSE cs,
             frame |-> f, ret |-> Ret("WouldBlock"),
             fx |-> [NoFx EXCEPT !.idle = IF tr.idle THEN "Idle" ELSE "Busy",
                                 !.sampled = tr.idle]]
      [] cs.state.name = "BusIdleCooldown" ->
            [strategy |-> IF ~tr.idle THEN [cs EXCEPT !.state = WaitForBusIdle]
                          ELSE IF now >= cs.state.ready_at
                               THEN [cs EXCEPT !.state = StartSend]
                               ELSE cs,
             frame |-> f, ret |-> Ret("WouldBlock"),
             fx |-> [NoFx EXCEPT !.idle = IF tr.idle THEN "Idle" ELSE "Busy"]]
      [] cs.state.name = "StartSend" ->
            [strategy |-> [cs EXCEPT !.reader = Reader_clear(cs.reader), !.state = Sending],
             frame |-> f, ret |-> Ret("WouldBlock"),
             fx |-> [NoFx EXCEPT !.idle = IF tr.idle THEN "Idle" ELSE "Busy",
                                 !.cleared = TRUE]]
      [] cs.state.name = "Sending" ->
            LET b == peek_for_send(f)
            IN  IF b = NoByte
                THEN [strategy |-> [cs EXCEPT !.state = ConfirmingSendWithoutErrors],
                      frame |-> f, ret |-> Ret("WouldBlock"), fx |-> NoFx]
                ELSE IF tr.write = "WouldBlock"
                THEN [strategy |-> cs, frame |-> f, ret |-> Ret("WouldBlock"),
                      fx |-> [NoFx EXCEPT !.tried = b]]
                ELSE IF tr.write = "Other"
                THEN [strategy |-> cs, frame |-> f,
                      ret |-> [Ret("Other") EXCEPT !.err = tr.err],
                      fx |-> [NoFx EXCEPT !.tried = b]]
                ELSE LET f2 == notify_send(f)
                     IN  [strategy |-> IF peek_for_send(f2) = NoByte
                                       THEN [cs EXCEPT !.state = ConfirmingSendWithoutErrors]
                                       ELSE cs,
                          frame |-> f2, ret |-> Ret("WouldBlock"),
                          fx |-> [NoFx EXCEPT !.tried = b, !.wrote = b]]
      [] OTHER ->
            [strategy |-> cs, frame |-> f, ret |-> Ret("WouldBlock"), fx |-> NoFx]

\* handle_send which leaves the cooldown as soon as the bus is idle.
handle_send_no_cooldown(cs, f, tr, now) ==
    CASE cs.state.name = "WaitForBusIdle" ->
            [strategy |-> IF tr.idle
                          THEN [cs EXCEPT !.state = BusIdleCooldown(now + tr.dur)]
                          ELSE cs,
             frame |-> f, ret |-> Ret("WouldBlock"),
             fx |-> [NoFx EXCEPT !.idle = IF tr.idle THEN "Idle" ELSE "Busy",
                                 !.sampled = tr.idle]]
      [] cs.state.name = "BusIdleCooldown" ->
            [strategy |-> IF ~tr.idle THEN [cs EXCEPT !.state = WaitForBusIdle]
                          ELSE [cs EXCEPT !.state = StartSend],
             frame |-> f, ret |-> Ret("WouldBlock"),
             fx |-> [NoFx EXCEPT !.idle = IF tr.idle THEN "Idle" ELSE "Busy"]]
      [] cs.state.name = "StartSend" ->
            [strategy |-> IF ~tr.idle THEN [cs EXCEPT !.state = WaitForBusIdle]
                          ELSE [cs EXCEPT !.reader = Reader_clear(cs.reader),
                                          !.state = Sending],
             frame |-> f, ret |-> Ret("WouldBlock"),
             fx |-> [NoFx EXCEPT !.idle = IF tr.idle THEN "Idle" ELSE "Busy",
                                 !.cleared = tr.idle]]
      [] cs.state.name = "Sending" ->
            LET b == peek_for_send(f)
            IN  IF b = NoByte
                THEN [strategy |-> [cs EXCEPT !.state = ConfirmingSendWithoutErrors],
                      frame |-> f, ret |-> Ret("WouldBlock"), fx |-> NoFx]
                ELSE IF tr.write = "WouldBlock"
                THEN [strategy |-> cs, frame |-> f, ret |-> Ret("WouldBlock"),
                      fx |-> [NoFx EXCEPT !.tried = b]]
                ELSE IF tr.write = "Other"
                THEN [strategy |-> cs, frame |-> f,
                      ret |-> [Ret("Other") EXCEPT !.err = tr.err],
                      fx |-> [NoFx EXCEPT !.tried = b]]
                ELSE LET f2 == notify_send(f)
                     IN  [strategy |-> IF peek_for_send(f2) = NoByte
                                       THEN [cs EXCEPT !.state = ConfirmingSendWithoutErrors]
                                       ELSE cs,
                          frame |-> f2, ret |-> Ret("WouldBlock"),
                          fx |-> [NoFx EXCEPT !.tried = b, !.wrote = b]]
      [] OTHER ->
            [strategy |-> cs, frame |-> f, ret |-> Ret("WouldBlock"), fx |-> NoFx]

handle_send(cs, f, tr, now) ==
    CASE cs.state.name = "WaitForBusIdle" ->
            [strategy |-> IF tr.idle
                          THEN [cs EXCEPT !.state = BusIdleCooldown(now + tr.dur)]
                          ELSE cs,
             frame |-> f, ret |-> Ret("WouldBlock"),
             fx |-> [NoFx EXCEPT !.idle = IF tr.idle THEN "Idle" ELSE "Busy",
                                 !.sampled = tr.idle]]
      [] cs.state.name = "BusIdleCooldown" ->
            [strategy |-> IF ~tr.idle THEN [cs EXCEPT !.state = WaitForBusIdle]
                          ELSE IF now >= cs.state.ready_at
                               THEN [cs EXCEPT !.state = StartSend]
                               ELSE cs,
             frame |-> f, ret |-> Ret("WouldBlock"),
             fx |-> [NoFx EXCEPT !.idle = IF tr.idle THEN "Idle" ELSE "Busy"]]
      [] cs.state.name = "StartSend" ->
            [strategy |-> IF ~tr.idle THEN [cs EXCEPT !.state = WaitForBusIdle]
                          ELSE [cs EXCEPT !.reader = Reader_clear(cs.reader),
                                          !.state = Sending],
             frame |-> f, ret |-> Ret("WouldBlock"),
             fx |-> [NoFx EXCEPT !.idle = IF tr.idle THEN "Idle" ELSE "Busy",
                                 !.cleared = tr.idle]]
      [] cs.state.name = "Sending" ->
            LET b == peek_for_send(f)
            IN  IF b = NoByte
                THEN [strategy |-> [cs EXCEPT !.state = ConfirmingSendWithoutErrors],
                      frame |-> f, ret |-> Ret("WouldBlock"), fx |-> NoFx]
                ELSE IF tr.write = "WouldBlock"
                THEN [strategy |-> cs, frame |-> f, ret |-> Ret("WouldBlock"),
                      fx |-> [NoFx EXCEPT !.tried = b]]
                ELSE IF tr.write = "Other"
                THEN [strategy |-> cs, frame |-> f,
                      ret |-> [Ret("Other") EXCEPT !.err = tr.err],
                      fx |-> [NoFx EXCEPT !.tried = b]]
                ELSE LET f2 == notify_send(f)
                     IN  [strategy |-> IF peek_for_send(f2) = NoByte
                                       THEN [cs EXCEPT !.state = ConfirmingSendWithoutErrors]
                                       ELSE cs,
                          frame |-> f2, ret |-> Ret("WouldBlock"),
                          fx |-> [NoFx EXCEPT !.tried = b, !.wrote = b]]
      [] OTHER ->
            [strategy |-> cs, frame |-> f, ret |-> Ret("WouldBlock"), fx |-> NoFx]

\* stats.frame_errors += 2
CountFrameError_twice(cs) == [cs EXCEPT !.stats.frame_errors = cs.stats.frame_errors + 2]

\* stats.frame_errors += 1
CountFrameError(cs) == [cs EXCEPT !.stats.frame_errors = cs.stats.frame_errors + 1]

\* on_mismatch feeding the byte before clearing the reader.
on_mismatch_feed_first(cs, f, b) ==
    LET c1 == CountFrameError(cs)
        fd == Reader_feed(c1.reader, b)
    IN  [strategy |-> [c1 EXCEPT !.reader = Reader_clear(fd.reader), !.state = WaitForBusIdle],
         frame |-> CsmaFrameInProgress_reset(f),
         ret |-> Ret("WouldBlock"),
         fx |-> [NoFx EXCEPT !.check = "Mismatch", !.reset = TRUE,
                             !.cleared = TRUE, !.fed = TRUE]]

\* A byte drained in Sending or ConfirmingSendWithoutErrors that is not the
\* next byte of the frame.
on_mismatch(cs, f, b) ==
    LET c1 == CountFrameError(cs)
        fd == Reader_feed(Reader_clear(c1.reader), b)
    IN  [strategy |-> [c1 EXCEPT !.reader = fd.reader, !.state = WaitForBusIdle],
         frame |-> CsmaFrameInProgress_reset(f),
         ret |-> Ret("WouldBlock"),
         fx |-> [NoFx EXCEPT !.check = "Mismatch", !.reset = TRUE,
                             !.cleared = TRUE, !.fed = TRUE]]

\* on_loopback_byte which goes on writing from the byte that came back.
on_loopback_byte_rewinds(cs, f, b, tr, now) ==
    LET chk == feed_as_check(f, b)
    IN  CASE chk.res = "OkTrue" ->
                [strategy |-> [cs EXCEPT !.state = WaitForBusIdle],
                 frame |-> chk.frame, ret |-> Ret("SendComplete"),
                 fx |-> [NoFx EXCEPT !.check = "Match"]]
          [] chk.res = "OkFalse" ->
                LET hs == handle_send([cs EXCEPT !.state = Sending],
                                      [chk.frame EXCEPT !.send_ptr = chk.frame.receive_ptr],
                                      tr, now)
                IN  [hs EXCEPT !.fx.check = "Match"]
          [] OTHER -> on_mismatch(cs, chk.frame, b)

\* A byte drained in Sending or ConfirmingSendWithoutErrors.
on_loopback_byte(cs, f, b, tr, now) ==
    LET chk == feed_as_check(f, b)
    IN  CASE chk.res = "OkTrue" ->
                [strategy |-> [cs EXCEPT !.state = WaitForBusIdle],
                 frame |-> chk.frame, ret |-> Ret("SendComplete"),
                 fx |-> [NoFx EXCEPT !.check = "Match"]]
          [] chk.res = "OkFalse" ->
                LET hs == handle_send(cs, chk.frame, tr, now)
                IN  [hs EXCEPT !.fx.check = "Match"]
          [] OTHER -> on_mismatch(cs, chk.frame, b)

\* on_incoming_byte clearing the reader, as the mismatch branch does.
on_incoming_byte_clears(cs, f, b, tr, now) ==
    LET fd == Reader_feed(Reader_clear(cs.reader), b)
        c1 == [cs EXCEPT !.state = WaitForBusIdle, !.reader = fd.reader]
    IN  IF fd.result.kind = "FrameOK"
        THEN [strategy |-> c1, frame |-> f,
              ret |-> [Ret("Received") EXCEPT !.frame = fd.result.frame],
              fx |-> [NoFx EXCEPT !.fed = TRUE]]
        ELSE LET hs == handle_send(c1, f, tr, now)
             IN  [hs EXCEPT !.fx.fed = TRUE]

\* on_incoming_byte leaving the state as it is.
on_incoming_byte_keep_state(cs, f, b, tr, now) ==
    LET fd == Reader_feed(cs.reader, b)
        c1 == [cs EXCEPT !.reader = fd.reader]
    IN  IF fd.result.kind = "FrameOK"
        THEN [strategy |-> c1, frame |-> f,
              ret |-> [Ret("Received") EXCEPT !.frame = fd.result.frame],
              fx |-> [NoFx EXCEPT !.fed = TRUE]]
        ELSE LET hs == handle_send(c1, f, tr, now)
             IN  [hs EXCEPT !.fx.fed = TRUE]

\* A byte drained in any other state.  The frame is unwrapped from
\* try_into: the call panics when the conversion fails.
on_incoming_byte(cs, f, b, tr, now) ==
    LET fd == Reader_feed(cs.reader, b)
        c1 == [cs EXCEPT !.state = WaitForBusIdle, !.reader = fd.reader]
    IN  IF fd.result.kind = "FrameOK"
        THEN [strategy |-> c1, frame |-> f,
              ret |-> IF FrameRef_try_into(fd.result.frame).ok
                      THEN [Ret("Received") EXCEPT !.frame = fd.result.frame]
                      ELSE Ret("Panic"),
              fx |-> [NoFx EXCEPT !.fed = TRUE]]
        ELSE LET hs == handle_send(c1, f, tr, now)
             IN  [hs EXCEPT !.fx.fed = TRUE]

\* on_frame_error without frame.reset().
on_frame_error_no_reset(cs, f) ==
    LET c1 == CountFrameError(cs)
    IN  [strategy |-> [c1 EXCEPT !.reader = Reader_clear(c1.reader),
                                 !.state = WaitForBusIdle],
         frame |-> f,
         ret |-> Ret("WouldBlock"),
         fx |-> [NoFx EXCEPT !.cleared = TRUE]]

\* read() reported ReadError::FrameError.
on_frame_error(cs, f) ==
    LET c1 == CountFrameError(cs)
    IN  [strategy |-> [c1 EXCEPT !.reader = Reader_clear(c1.reader),
                                 !.state = WaitForBusIdle],
         frame |-> CsmaFrameInProgress_reset(f),
         ret |-> Ret("WouldBlock"),
         fx |-> [NoFx EXCEPT !.reset = TRUE, !.cleared = TRUE]]

send_or_receive(cs, f, rd, tr, now) ==
    CASE rd.kind = "Byte" ->
            IF cs.state.name \in {"Sending", "ConfirmingSendWithoutErrors"}
            THEN on_loopback_byte(cs, f, rd.byte, tr, now)
            ELSE on_incoming_byte(cs, f, rd.byte, tr, now)
      [] rd.kind = "WouldBlock" -> handle_send(cs, f, tr, now)
      [] rd.kind = "FrameError" -> on_frame_error(cs, f)
      [] OTHER ->
            [strategy |-> cs, frame |-> f,
             ret |-> [Ret("Other") EXCEPT !.err = rd.err], fx |-> NoFx]

\* receive counting an unrecoverable error as a frame error.
receive_counts_underlying(cs, rd) ==
    CASE rd.kind = "Byte" ->
            LET fd == Reader_feed(cs.reader, rd.byte)
            IN  [strategy |-> [cs EXCEPT !.reader = fd.reader],
                 ret |-> IF fd.result.kind = "FrameOK"
                         THEN [Ret("Ok") EXCEPT !.frame = fd.result.frame]
                         ELSE Ret("WouldBlock"),
                 fx |-> [NoFx EXCEPT !.fed = TRUE]]
      [] rd.kind \in {"FrameError", "UnderlyingError"} ->
            LET c1 == CountFrameError(cs)
            IN  [strategy |-> [c1 EXCEPT !.reader = Reader_clear(c1.reader)],
                 ret |-> Ret("WouldBlock"),
                 fx |-> [NoFx EXCEPT !.cleared = TRUE]]
      [] OTHER ->
            [strategy |-> cs, ret |-> Ret("WouldBlock"), fx |-> NoFx]

\* CsmaStrategy::receive
receive(cs, rd) ==
    CASE rd.kind = "Byte" ->
            LET fd == Reader_feed(cs.reader, rd.byte)
            IN  [strategy |-> [cs EXCEPT !.reader = fd.reader],
                 ret |-> IF fd.result.kind = "FrameOK"
                         THEN [Ret("Ok") EXCEPT !.frame = fd.result.frame]
                         ELSE Ret("WouldBlock"),
                 fx |-> [NoFx EXCEPT !.fed = TRUE]]
      [] rd.kind = "FrameError" ->
            LET c1 == CountFrameError(cs)
            IN  [strategy |-> [c1 EXCEPT !.reader = Reader_clear(c1.reader)],
                 ret |-> Ret("WouldBlock"),
                 fx |-> [NoFx EXCEPT !.cleared = TRUE]]
      [] rd.kind = "UnderlyingError" ->
            [strategy |-> cs, ret |-> [Ret("Other") EXCEPT !.err = rd.err], fx |-> NoFx]
      [] OTHER ->
            [strategy |-> cs, ret |-> Ret("WouldBlock"), fx |-> NoFx]

(***************************************************************************)
(* State                                                                   *)
(***************************************************************************)
VARIABLES
    strategy,       \* per party: the CsmaStrategy (reader, state, stats)
    current_frame,  \* per party: the caller's Option<CsmaFrameInProgress>
    now,            \* the clock
    rxq,            \* per party: bytes on their way to read(), oldest first
    bus,            \* the simulation's SerialBusState
    mailbox,        \* the simulation's Mailbox and the callers' send counts
    env,            \* what the surroundings of a single station may still do
    last,           \* per party: the last call, its inputs, result and effects
    hist            \* per party: history of the bytes read, checked and written

vars == << strategy, current_frame, now, rxq, bus, mailbox, env, last, hist >>

Parties == {0, 1}

(***************************************************************************)
(* Bounds                                                                  *)
(***************************************************************************)
MaxNow == 1             \* the clock of a single station stops here
MaxFrameErrors == 1     \* calls are made while frame_errors is below this
MaxInFlight == 1        \* bytes an arbitrary transceiver holds on their way back
MaxNoise == 1           \* bytes of noise the surroundings may inject
MaxSubmit == 1          \* frames the caller of a single station submits
MinIdle == 1            \* Config::BUS_MIN_IDLE_DURATION of a single station
MaxIdle == 2            \* Config::BUS_MAX_IDLE_DURATION (exclusive)

NoiseBytes == {0, 255}
UnderlyingErrors == {1, 2}
Durations == MinIdle .. (MaxIdle - 1)

\* The frames of the two stations: empty payloads, each addressed to the other.
Frames == [p \in Parties |-> Writer_package(p, 1 - p, <<>>).frame]
FrameOf(p) == Frames[p]

\* Option<CsmaFrameInProgress>: f is meaningful only when some holds.
None == [some |-> FALSE, f |-> CsmaFrameInProgress_new(<<>>)]
Some(f) == [some |-> TRUE, f |-> f]
Dropped(f) == [some |-> FALSE, f |-> f]

\* The record of a call: rd is
\* what read() reported, from the stations that wrote the byte, pre the
\* state the call started in, origins the stations that wrote the bytes of
\* the frame the call returned.
NoLast == [op |-> "None", rd |-> ReadWouldBlock, from |-> {},
           pre |-> "WaitForBusIdle", ret |-> Ret("None"), fx |-> NoFx, origins |-> {}]

\* tags, checked and sent are empty at the start.
NoHist == [tags |-> <<>>, checked |-> <<>>, sent |-> <<>>]

\* The origins of the bytes in the reader after a call: tags is parallel to
\* the reader's buffer.
TagsAfter(tags, fx, from, reader2) ==
    LET t0 == IF fx.cleared THEN <<>> ELSE tags
    IN  IF fx.fed /\ reader2.ptr = Len(t0) + 1 THEN Append(t0, from)
        ELSE IF reader2.ptr = 0 THEN <<>> ELSE t0

\* The bytes checked against the frame since its last reset.
CheckedAfter(checked, fx, rd) ==
    IF fx.reset THEN <<>>
    ELSE IF fx.check = "Match" THEN Append(checked, rd.byte) ELSE checked

\* The bytes write() accepted since the frame's last reset.
SentAfter(sent, fx) ==
    IF fx.reset THEN <<>>
    ELSE IF fx.wrote # NoByte THEN Append(sent, fx.wrote) ELSE sent

Range(sq) == {sq[i] : i \in 1..Len(sq)}

Observed(op, p, rd, from, out) ==
    [op |-> op, rd |-> rd, from |-> from,
     pre |-> strategy[p].state.name, ret |-> out.ret, fx |-> out.fx,
     origins |-> IF out.ret.kind \in {"Received", "Ok"}
                 THEN UNION (Range(hist[p].tags) \cup {from}) ELSE {}]

HistAfter(p, rd, from, out) ==
    [tags |-> TagsAfter(hist[p].tags, out.fx, from, out.strategy.reader),
     checked |-> CheckedAfter(hist[p].checked, out.fx, rd),
     sent |-> SentAfter(hist[p].sent, out.fx)]

\* Option<Fragment>
NoFragment == [some |-> FALSE, contents |-> 0, error |-> FALSE]
Fragment(contents, error) == [some |-> TRUE, contents |-> contents, error |-> error]

NoBus == [current |-> NoFragment, next |-> NoFragment]
NoMailbox == [send_progress |-> [p \in Parties |-> 0],
              receive_progress |-> [p \in Parties |-> {}]]

\* The answers a transceiver, clock and random source may give to a call.
\* Answers the call did not ask for are fixed, so that every behaviour of
\* the call appears once.
TrChoices ==
    [idle : BOOLEAN, write : {"Ok", "WouldBlock", "Other"}, dur : Durations,
     err : UnderlyingErrors]

Asked(tr, out) ==
    /\ out.fx.idle = "NotAsked" => tr.idle = FALSE
    /\ out.fx.tried = NoByte => tr.write = "Ok"
    /\ ~out.fx.sampled => tr.dur = MinIdle
    /\ out.ret.kind # "Other" => tr.err = 1

(***************************************************************************)
(* A single station (party 0) behind an arbitrary transceiver              *)
(***************************************************************************)
InitStations ==
    /\ strategy = [p \in Parties |-> CsmaStrategy_new]
    /\ current_frame = [p \in Parties |-> None]
    /\ now = 0
    /\ rxq = [p \in Parties |-> <<>>]
    /\ bus = NoBus
    /\ mailbox = NoMailbox
    /\ last = [p \in Parties |-> NoLast]
    /\ hist = [p \in Parties |-> NoHist]

\* foreign_ptr: how much of the other station's frame has arrived; noise: how
\* many bytes of noise; cap: how many bytes may be on their way back; errs:
\* calls are made while frame_errors is below this.
Init ==
    /\ InitStations
    /\ env = [foreign_ptr |-> 0, noise |-> 0, cap |-> MaxInFlight, errs |-> MaxFrameErrors]

\* What read() may report to party 0: nothing, the oldest byte of its own
\* that is still on its way back, a byte of noise, a frame error or an
\* unrecoverable error, or the next byte of the other station's frame.  The
\* other station starts while no byte of party 0 is on its way and its frame
\* then arrives back to back.
Arriving == 0 < env.foreign_ptr /\ env.foreign_ptr < Len(FrameOf(1))

ForeignByte ==
    [src |-> "foreign", rd |-> ReadByte(FrameOf(1)[env.foreign_ptr + 1]), from |-> {1}]

ReadChoices ==
    IF Arriving THEN {ForeignByte}
    ELSE
    {[src |-> "none", rd |-> ReadWouldBlock, from |-> {}],
     [src |-> "ferr", rd |-> ReadFrameError, from |-> {}]}
    \cup {[src |-> "uerr", rd |-> ReadUnderlyingError(e), from |-> {}] : e \in UnderlyingErrors}
    \cup (IF rxq[0] # <<>>
          THEN {[src |-> "loop", rd |-> ReadByte(Head(rxq[0]).byte), from |-> Head(rxq[0]).from]}
          ELSE {})
    \cup (IF env.foreign_ptr = 0 /\ rxq[0] = <<>> THEN {ForeignByte} ELSE {})
    \cup (IF env.noise < MaxNoise
          THEN {[src |-> "noise", rd |-> ReadByte(b), from |-> {2}] : b \in NoiseBytes}
          ELSE {})

EnvAfter(c) ==
    [env EXCEPT !.foreign_ptr = @ + (IF c.src = "foreign" THEN 1 ELSE 0),
                !.noise = @ + (IF c.src = "noise" THEN 1 ELSE 0)]

\* The caller hands a new frame to send.
Submit ==
    /\ ~current_frame[0].some
    /\ mailbox.send_progress[0] < MaxSubmit
    /\ current_frame' = [current_frame EXCEPT ![0] = Some(CsmaFrameInProgress_new(FrameOf(0)))]
    /\ mailbox' = [mailbox EXCEPT !.send_progress[0] = @ + 1]
    /\ last' = [last EXCEPT ![0] = [NoLast EXCEPT !.op = "new"]]
    /\ hist' = [hist EXCEPT ![0].checked = <<>>, ![0].sent = <<>>]
    /\ UNCHANGED << strategy, now, rxq, bus, env >>

\* One call of send_or_receive; the caller drops the frame on SendComplete.
Poll ==
    /\ current_frame[0].some
    /\ strategy[0].stats.frame_errors < env.errs
    /\ \E c \in ReadChoices, tr \in TrChoices :
        \E out \in {send_or_receive(strategy[0], current_frame[0].f, c.rd, tr, now)} :
        LET q1  == IF c.src = "loop" THEN Tail(rxq[0]) ELSE rxq[0]
        IN  /\ Asked(tr, out)
            /\ out.fx.wrote # NoByte => Len(q1) < env.cap
            /\ strategy' = [strategy EXCEPT ![0] = out.strategy]
            /\ current_frame' = [current_frame EXCEPT ![0] =
                    IF out.ret.kind = "SendComplete"
                    THEN Dropped(out.frame) ELSE Some(out.frame)]
            /\ rxq' = [rxq EXCEPT ![0] =
                    IF out.fx.wrote # NoByte
                    THEN Append(q1, [byte |-> out.fx.wrote, from |-> {0}]) ELSE q1]
            /\ env' = EnvAfter(c)
            /\ last' = [last EXCEPT ![0] = Observed("send_or_receive", 0, c.rd, c.from, out)]
            /\ hist' = [hist EXCEPT ![0] = HistAfter(0, c.rd, c.from, out)]
    /\ UNCHANGED << now, bus, mailbox >>

\* One call of receive, made while the caller has nothing to send.
Recv ==
    /\ ~current_frame[0].some
    /\ strategy[0].stats.frame_errors < env.errs
    /\ \E c \in ReadChoices :
        \E out \in {receive(strategy[0], c.rd)} :
            /\ strategy' = [strategy EXCEPT ![0] = out.strategy]
            /\ rxq' = [rxq EXCEPT ![0] = IF c.src = "loop" THEN Tail(rxq[0]) ELSE rxq[0]]
            /\ env' = EnvAfter(c)
            /\ last' = [last EXCEPT ![0] = Observed("receive", 0, c.rd, c.from, out)]
            /\ hist' = [hist EXCEPT ![0] = HistAfter(0, c.rd, c.from, out)]
    /\ UNCHANGED << current_frame, now, bus, mailbox >>

\* The clock advances.
ClockTick ==
    /\ now < MaxNow
    /\ now' = now + 1
    /\ UNCHANGED << strategy, current_frame, rxq, bus, mailbox, env, last, hist >>

Next == Submit \/ Poll \/ Recv \/ ClockTick

Spec == Init /\ [][Next]_vars

\* A single station whose transceiver holds up to a whole frame on its way
\* back; no other station sends and there is no noise.
FifoDepth == 10
FifoFrameErrors == 2

InitFifo ==
    /\ InitStations
    /\ env = [foreign_ptr |-> Len(FrameOf(1)), noise |-> MaxNoise, cap |-> FifoDepth,
             errs |-> FifoFrameErrors]

SpecFifo == InitFifo /\ [][Next]_vars

(***************************************************************************)
(* Two stations on an ideal medium: the bus always reads as idle and every *)
(* byte written comes back to every station, unaltered and in order.  The  *)
(* stations are polled in turn and the clock advances after each round.    *)
(***************************************************************************)
IdleMaxDuration == 3    \* cooldowns on the ideal medium are below this
IdleFrameErrors == 2    \* rounds are played while frame_errors is below this

IdleDurations == MinIdle .. (IdleMaxDuration - 1)

\* Rounds after which two stations that never transmit at the same time
\* have both completed: two cooldowns, two frames and the steps in between.
IdleDeadline == 2 * (IdleMaxDuration + Len(FrameOf(0)) + 4)

\* bus_is_idle() of the ideal medium.
IdleMedium_bus_is_idle == TRUE

\* read() of the ideal medium: the oldest byte still to be read by this
\* station.
IdleMedium_read(q) ==
    IF q = <<>> THEN ReadWouldBlock ELSE ReadByte(Head(q).byte)

\* write() of the ideal medium: the byte goes to every station.
IdleMedium_write(qs, p, byte) ==
    [x \in Parties |-> Append(qs[x], [byte |-> byte, from |-> {p}])]

Transmitting(cs) == cs.state.name \in {"Sending", "ConfirmingSendWithoutErrors"}

InitIdle ==
    /\ strategy = [p \in Parties |-> CsmaStrategy_new]
    /\ current_frame = [p \in Parties |-> Some(CsmaFrameInProgress_new(FrameOf(p)))]
    /\ now = 0
    /\ rxq = [p \in Parties |-> <<>>]
    /\ bus = NoBus
    /\ mailbox = [NoMailbox EXCEPT !.send_progress = [p \in Parties |-> 1]]
    /\ last = [p \in Parties |-> NoLast]
    /\ hist = [p \in Parties |-> NoHist]
    /\ env = [turn |-> 0, overlapped |-> FALSE, received |-> [p \in Parties |-> {}]]

IdleFinished ==
    \A p \in Parties :
        ~current_frame[p].some /\ env.received[p] # {} /\ rxq[p] = <<>>

\* The station whose turn it is makes one call: send_or_receive while it
\* holds its frame, receive once the frame is complete.
PollIdle ==
    LET p == env.turn IN
    /\ now < IdleDeadline
    /\ ~IdleFinished
    /\ \A x \in Parties : strategy[x].stats.frame_errors < IdleFrameErrors
    /\ \E d \in IdleDurations :
        LET cf   == current_frame[p]
            rd   == IdleMedium_read(rxq[p])
            from == IF rxq[p] = <<>> THEN {} ELSE Head(rxq[p]).from
            tr   == [idle |-> IdleMedium_bus_is_idle, write |-> "Ok", dur |-> d, err |-> 1]
            rc   == receive(strategy[p], rd)
            res  == IF cf.some
                    THEN send_or_receive(strategy[p], cf.f, rd, tr, now)
                    ELSE [strategy |-> rc.strategy, frame |-> cf.f,
                          ret |-> rc.ret, fx |-> rc.fx]
            q1   == [rxq EXCEPT ![p] = IF rd.kind = "Byte" THEN Tail(@) ELSE @]
            st2  == [strategy EXCEPT ![p] = res.strategy]
        IN  /\ ~res.fx.sampled => d = MinIdle
            /\ strategy' = st2
            /\ current_frame' = [current_frame EXCEPT ![p] =
                    IF ~cf.some THEN cf
                    ELSE IF res.ret.kind = "SendComplete"
                         THEN Dropped(res.frame) ELSE Some(res.frame)]
            /\ rxq' = IF res.fx.wrote # NoByte
                      THEN IdleMedium_write(q1, p, res.fx.wrote) ELSE q1
            /\ now' = IF p = 1 THEN now + 1 ELSE now
            /\ env' = [turn |-> 1 - p,
                       overlapped |-> env.overlapped
                                      \/ \A x \in Parties : Transmitting(st2[x]),
                       received |-> [env.received EXCEPT ![p] =
                            IF res.ret.kind \in {"Received", "Ok"}
                            THEN @ \cup {res.ret.frame} ELSE @]]
            /\ last' = [last EXCEPT ![p] =
                    Observed(IF cf.some THEN "send_or_receive" ELSE "receive",
                             p, rd, from, res)]
            /\ hist' = [hist EXCEPT ![p] = HistAfter(p, rd, from, res)]
    /\ UNCHANGED << bus, mailbox >>

SpecIdle == InitIdle /\ [][PollIdle]_vars

(***************************************************************************)
(* The simulation: Message, Mailbox, SerialBus, SerialTransceiver          *)
(***************************************************************************)
MessagesPerParty == 2   \* Mailbox::messages_per_party of the simulation
SimMaxIdle == 4         \* BusConf::BUS_MAX_IDLE_DURATION of the simulation
SimFrameErrors == 2     \* the main loop runs while frame_errors is below this
SimMaxNow == 150        \* the main loop runs while the clock is below this
post_done_length == 32

SimDurations == MinIdle .. (SimMaxIdle - 1)

\* The decimal digits of n, in ASCII.
RECURSIVE Decimal(_)
Decimal(n) == IF n < 10 THEN << 48 + n >> ELSE Append(Decimal(n \div 10), 48 + (n % 10))

Lit_src == << 123, 34, 115, 114, 99, 34, 58 >>                       \* {"src":
Lit_dst == << 44, 34, 100, 115, 116, 34, 58 >>                       \* ,"dst":
Lit_identifier ==
    << 44, 34, 105, 100, 101, 110, 116, 105, 102, 105, 101, 114, 34, 58 >>  \* ,"identifier":
Lit_end == << 125 >>                                                 \* }

Message(src, dst, identifier) == [src |-> src, dst |-> dst, identifier |-> identifier]

\* serde_json::to_vec of a Message
Message_to_bytes(msg) ==
    Lit_src \o Decimal(msg.src) \o Lit_dst \o Decimal(msg.dst)
        \o Lit_identifier \o Decimal(msg.identifier) \o Lit_end

IsDigit(b) == 48 <= b /\ b <= 57

\* The index behind the digits that start at i.
RECURSIVE DigitsEnd(_, _)
DigitsEnd(bytes, i) ==
    IF i <= Len(bytes) /\ IsDigit(bytes[i]) THEN DigitsEnd(bytes, i + 1) ELSE i

\* The number written in bytes[i .. j - 1].
RECURSIVE ParseDecimal(_, _, _)
ParseDecimal(bytes, i, j) ==
    IF j <= i THEN 0 ELSE ParseDecimal(bytes, i, j - 1) * 10 + (bytes[j - 1] - 48)

HasLit(bytes, i, lit) ==
    /\ i + Len(lit) - 1 <= Len(bytes)
    /\ SubSeq(bytes, i, i + Len(lit) - 1) = lit

\* A JSON number: digits, with no leading zero in front of other digits.
IsNumber(bytes, i, j) == j > i /\ (bytes[i] = 48 => j = i + 1)

\* serde_json::from_slice for the text to_bytes produces; any other text is
\* an error here.
Message_from_bytes(bytes) ==
    LET i1 == 1 + Len(Lit_src)
        j1 == DigitsEnd(bytes, i1)
        i2 == j1 + Len(Lit_dst)
        j2 == DigitsEnd(bytes, i2)
        i3 == j2 + Len(Lit_identifier)
        j3 == DigitsEnd(bytes, i3)
    IN  IF /\ HasLit(bytes, 1, Lit_src) /\ IsNumber(bytes, i1, j1)
           /\ HasLit(bytes, j1, Lit_dst) /\ IsNumber(bytes, i2, j2)
           /\ HasLit(bytes, j2, Lit_identifier) /\ IsNumber(bytes, i3, j3)
           /\ HasLit(bytes, j3, Lit_end) /\ j3 = Len(bytes)
        THEN [ok |-> TRUE,
              msg |-> Message(ParseDecimal(bytes, i1, j1), ParseDecimal(bytes, i2, j2),
                              ParseDecimal(bytes, i3, j3))]
        ELSE [ok |-> FALSE, msg |-> Message(0, 0, 0)]

PartyCount == Cardinality(Parties)

\* Mailbox::fetch: [mailbox, frame] with frame an Option<Frame>.
Mailbox_fetch(mb, src) ==
    LET progress == mb.send_progress[src]
        dst0     == progress % (PartyCount - 1)
        dst      == IF dst0 >= src THEN dst0 + 1 ELSE dst0
        pkg      == Writer_package(src, dst, Message_to_bytes(Message(src, dst, progress)))
    IN  IF progress < MessagesPerParty
        THEN [mailbox |-> [mb EXCEPT !.send_progress[src] = progress + 1],
              some |-> TRUE, frame |-> pkg.frame, panic |-> ~pkg.ok]
        ELSE [mailbox |-> mb, some |-> FALSE, frame |-> <<>>, panic |-> FALSE]

\* Mailbox::deliver: [mailbox, panic].
Mailbox_deliver(mb, frame) ==
    LET parsed == Message_from_bytes(frame.contents)
        msg    == parsed.msg
    IN  IF /\ parsed.ok
           /\ msg.src = frame.header.address_src
           /\ msg.dst = frame.header.address_dst
           /\ msg.src \in Parties
        THEN [mailbox |-> [mb EXCEPT !.receive_progress[msg.src] = @ \cup {msg.identifier}],
              panic |-> FALSE]
        ELSE [mailbox |-> mb, panic |-> TRUE]

Mailbox_all_sent(mb) == \A p \in Parties : mb.send_progress[p] = MessagesPerParty

\* SerialBus::write without the error mark on a second write.
SerialBus_write_unmarked(b, byte) ==
    [b EXCEPT !.next = Fragment(IF b.next.some THEN Or(byte, b.next.contents) ELSE byte,
                                FALSE)]

SerialBus_write(b, byte) ==
    IF b.next.some
    THEN [b EXCEPT !.next = Fragment(Or(byte, b.next.contents), TRUE)]
    ELSE [b EXCEPT !.next = Fragment(byte, FALSE)]

SerialBus_is_idle(b) == ~b.current.some /\ ~b.next.some

SerialBus_is_error(b) == b.current.some /\ b.current.error

\* SerialBus::read: the byte, or NoByte for None.
SerialBus_read(b) ==
    IF b.current.some /\ ~b.current.error THEN b.current.contents ELSE NoByte

SerialBus_iterate(b) == [current |-> b.next, next |-> NoFragment]

SerialTransceiver_bus_is_idle(b) == SerialBus_is_idle(b)

\* SerialTransceiver::read handing out the contents of an error fragment
\* as a byte.
SerialTransceiver_read_garbled(b) ==
    IF b.current.some THEN ReadByte(b.current.contents) ELSE ReadWouldBlock

SerialTransceiver_read(b) ==
    IF SerialBus_is_error(b) THEN ReadFrameError
    ELSE IF SerialBus_read(b) = NoByte THEN ReadWouldBlock
    ELSE ReadByte(SerialBus_read(b))

(***************************************************************************)
(* The simulation: Party::simulate and the main loop                       *)
(***************************************************************************)
\* The result of receive in the shape of send_or_receive's.
Party_receive(cf, rc) ==
    [strategy |-> rc.strategy, frame |-> cf.f, ret |-> rc.ret, fx |-> rc.fx]

\* The end of Party::simulate: what the call returned is handed to the
\* mailbox when it is a frame addressed to the party, and SendComplete drops
\* the current frame. fresh says that the frame was fetched in this call.
Party_simulate_deliver(p, S, cf, mb1, fresh, panic1, rd, from, res, dl) ==
    LET mine == /\ res.ret.kind \in {"Received", "Ok"}
                /\ res.ret.frame.header.address_dst = p
        sent == res.fx.wrote # NoByte
    IN  [strategy |-> [S.strategy EXCEPT ![p] = res.strategy],
         current_frame |-> [S.current_frame EXCEPT ![p] =
                IF ~cf.some THEN cf
                ELSE IF res.ret.kind = "SendComplete"
                     THEN Dropped(res.frame) ELSE Some(res.frame)],
         mailbox |-> IF mine THEN dl.mailbox ELSE mb1,
         bus |-> IF sent THEN SerialBus_write(S.bus, res.fx.wrote) ELSE S.bus,
         last |-> [S.last EXCEPT ![p] =
                Observed(IF cf.some THEN "send_or_receive" ELSE "receive",
                         p, rd, from, res)],
         hist |-> [S.hist EXCEPT ![p] =
                [tags |-> TagsAfter(S.hist[p].tags, res.fx, from, res.strategy.reader),
                 checked |-> IF fresh THEN <<>>
                             ELSE CheckedAfter(S.hist[p].checked, res.fx, rd),
                 sent |-> SentAfter(IF fresh THEN <<>> ELSE S.hist[p].sent, res.fx)]],
         ready |-> [S.ready EXCEPT ![p] =
                IF res.fx.sampled THEN res.strategy.state.ready_at ELSE @],
         cur_from |-> S.cur_from,
         next_from |-> IF sent THEN S.next_from \cup {p} ELSE S.next_from,
         panic |-> S.panic \/ panic1 \/ (mine /\ dl.panic)]

Party_simulate_result(p, S, cf, mb1, fresh, panic1, rd, from, res) ==
    Party_simulate_deliver(p, S, cf, mb1, fresh, panic1, rd, from, res,
                           Mailbox_deliver(mb1, res.ret.frame))

\* The middle of Party::simulate: send_or_receive while the party holds a
\* frame, receive otherwise.
Party_simulate_call(p, S, d, t, cf, mb1, fresh, panic1, rd) ==
    Party_simulate_result(p, S, cf, mb1, fresh, panic1, rd,
        IF rd.kind = "Byte" THEN S.cur_from ELSE {},
        IF cf.some
        THEN send_or_receive(S.strategy[p], cf.f, rd,
                 [idle |-> SerialTransceiver_bus_is_idle(S.bus), write |-> "Ok",
                  dur |-> d, err |-> 1], t)
        ELSE Party_receive(cf, receive(S.strategy[p], rd)))

\* The start of Party::simulate: a party without a frame fetches one; ft is
\* what Mailbox::fetch gives.
Party_simulate_fetch(p, S, d, t, fetching, ft) ==
    Party_simulate_call(p, S, d, t,
        IF ~fetching THEN S.current_frame[p]
        ELSE IF ft.some THEN Some(CsmaFrameInProgress_new(ft.frame))
        ELSE Dropped(S.current_frame[p].f),
        IF fetching THEN ft.mailbox ELSE S.mailbox,
        fetching /\ ft.some,
        fetching /\ ft.panic,
        SerialTransceiver_read(S.bus))

\* Party::simulate of party p at time t, on the record S of what the loop
\* body has done so far; d is the cooldown the random source would give.
\* cur_from and next_from are the writers of the bus's two fragments, ready
\* the ready_at each party sampled last.
Party_simulate(p, S, d, t) ==
    Party_simulate_fetch(p, S, d, t, ~S.current_frame[p].some,
                         Mailbox_fetch(S.mailbox, p))

\* Whether a byte the party has checked against its frame since the frame's
\* last reset was on the bus with a byte of another party, or was not written
\* by the party at all.  l is the record of the party's call in this turn and
\* fresh says that the frame was fetched in this turn.
SharedAfter(shared, p, l, fresh) ==
    IF l.fx.reset \/ fresh THEN FALSE
    ELSE shared \/ (l.fx.check = "Match" /\ l.from # {p})

InitSim ==
    /\ InitStations
    /\ env = [ready |-> [p \in Parties |-> -1], cur_from |-> {}, next_from |-> {},
              panic |-> FALSE, post_done_count |-> 0,
              shared |-> [p \in Parties |-> FALSE]]

\* One turn of the main loop: bus.iterate(), every party's simulate in the
\* order of the parties, clock.increase(1), and the count of turns made after
\* all messages were handed out.
Tick ==
    /\ ~Mailbox_all_sent(mailbox)
    /\ ~env.panic
    /\ now < SimMaxNow
    /\ \A p \in Parties : strategy[p].stats.frame_errors < SimFrameErrors
    /\ \E S0 \in {[strategy |-> strategy, current_frame |-> current_frame,
                   mailbox |-> mailbox, bus |-> SerialBus_iterate(bus),
                   last |-> last, hist |-> hist, ready |-> env.ready,
                   cur_from |-> env.next_from, next_from |-> {}, panic |-> FALSE]} :
       \E d0 \in SimDurations :
       \E S1 \in {Party_simulate(0, S0, d0, now)} :
       /\ ~S1.last[0].fx.sampled => d0 = MinIdle
       /\ \E d1 \in SimDurations :
          \E S2 \in {Party_simulate(1, S1, d1, now)} :
            /\ ~S2.last[1].fx.sampled => d1 = MinIdle
            /\ strategy' = S2.strategy
            /\ current_frame' = S2.current_frame
            /\ mailbox' = S2.mailbox
            /\ bus' = S2.bus
            /\ last' = S2.last
            /\ hist' = S2.hist
            /\ now' = now + 1
            /\ env' = [ready |-> S2.ready, cur_from |-> S2.cur_from,
                       next_from |-> S2.next_from, panic |-> S2.panic,
                       post_done_count |->
                            IF /\ Mailbox_all_sent(S2.mailbox)
                               /\ env.post_done_count < post_done_length
                            THEN env.post_done_count + 1
                            ELSE env.post_done_count,
                       shared |-> [p \in Parties |->
                            SharedAfter(env.shared[p], p, S2.last[p],
                                S2.mailbox.send_progress[p] # mailbox.send_progress[p])]]
    /\ UNCHANGED rxq

SpecSim == InitSim /\ [][Tick]_vars


(***************************************************************************)
(* The codec on its own: Writer::package of an input, and the frame fed    *)
(* byte by byte to a fresh Reader (tests::writer_reader_ok).               *)
(***************************************************************************)
MaxPayloadLen == 3      \* every payload over PayloadBytes up to this length

PayloadBytes == {0, 1, 255}
CodecAddresses == {0, 13, 1023}
ADDR_A == 13
ADDR_B == 169

\* Payload lengths around the COBS block size, the largest message and the
\* largest length the header can hold.
LongLens ==
    {253, 254, 255, 507, 508, MAX_MESSAGE_LEN - 1, MAX_MESSAGE_LEN,
     MAX_MESSAGE_LEN + 1, MAX_MESSAGE_LEN + 3, MAX_MESSAGE_LEN + 4, 1023, 1024}

\* n bytes b, with a 0x00 at every multiple of z when z is positive.
LongPayload(n, b, z) == [i \in 1 .. n |-> IF z > 0 /\ (i % z) = 0 THEN 0 ELSE b]

LongPayloads ==
    {LongPayload(n, 0, 0) : n \in LongLens}
        \cup {LongPayload(n, b, z) : n \in LongLens, b \in {1, 255}, z \in {0, 2, 254}}

ShortPayloads == UNION {[1 .. k -> PayloadBytes] : k \in 0 .. MaxPayloadLen}

CodecInputs ==
    {[src |-> s, dst |-> d, payload |-> c] :
        s \in CodecAddresses, d \in CodecAddresses, c \in ShortPayloads}
        \cup {[src |-> ADDR_A, dst |-> ADDR_B, payload |-> c] : c \in LongPayloads}

NoPackage == [ok |-> FALSE, err |-> "None", frame |-> <<>>]

\* What a run of feed calls gave: the reader, the kind of every result in the
\* order of the calls, and the last result.
NoFeeds == [reader |-> Reader_new, kinds |-> <<>>, last |-> ReadResult("None")]

Feeds_feed(acc, byte) ==
    CHOOSE x \in { [reader |-> fd.reader, kinds |-> Append(acc.kinds, fd.result.kind),
                    last |-> fd.result] :
                        fd \in { Reader_feed(acc.reader, byte) } } : TRUE

\* reader.feed(b) for b in bytes[lo .. hi], in order; the range is halved so
\* that long inputs need no deep recursion.
RECURSIVE Feeds_feed_all(_, _, _, _)
Feeds_feed_all(acc, bytes, lo, hi) ==
    IF lo > hi THEN acc
    ELSE IF lo = hi THEN Feeds_feed(acc, bytes[lo])
    ELSE CHOOSE x \in { Feeds_feed_all(h, bytes, ((lo + hi) \div 2) + 1, hi) :
                            h \in { Feeds_feed_all(acc, bytes, lo, (lo + hi) \div 2) } } : TRUE

\* What a run of send_or_receive calls gave: the strategy and the result of
\* the last call.
NoPolls == [strategy |-> CsmaStrategy_new, ret |-> Ret("None")]

\* send_or_receive of a station that has its own frame to send, while the
\* bus is busy and read() gives the byte.
Polls_poll(acc, byte) ==
    CHOOSE x \in { [strategy |-> out.strategy, ret |-> out.ret] :
                    out \in { send_or_receive(acc.strategy, CsmaFrameInProgress_new(FrameOf(0)),
                                              ReadByte(byte),
                                              [idle |-> FALSE, write |-> "Ok", dur |-> MinIdle,
                                               err |-> 1],
                                              0) } } : TRUE

\* One call for each of bytes[lo .. hi], in order, unless a call panicked.
RECURSIVE Polls_poll_all(_, _, _, _)
Polls_poll_all(acc, bytes, lo, hi) ==
    IF lo > hi \/ acc.ret.kind = "Panic" THEN acc
    ELSE IF lo = hi THEN Polls_poll(acc, bytes[lo])
    ELSE CHOOSE x \in { Polls_poll_all(h, bytes, ((lo + hi) \div 2) + 1, hi) :
                            h \in { Polls_poll_all(acc, bytes, lo, (lo + hi) \div 2) } } : TRUE

InitCodec ==
    /\ InitStations
    /\ \E i \in CodecInputs :
        env = [src |-> i.src, dst |-> i.dst, payload |-> i.payload, stage |-> "input",
               pkg |-> NoPackage, feeds |-> NoFeeds, polls |-> NoPolls]

\* Writer::package(src, dst, payload)
Package ==
    /\ env.stage = "input"
    /\ env' = [env EXCEPT !.stage = "packaged",
                          !.pkg = Writer_package(env.src, env.dst, env.payload)]
    /\ UNCHANGED << strategy, current_frame, now, rxq, bus, mailbox, last, hist >>

\* The frame fed byte by byte to a fresh Reader.
Decode ==
    /\ env.stage = "packaged"
    /\ env.pkg.ok
    /\ env' = [env EXCEPT !.stage = "decoded",
                          !.feeds = Feeds_feed_all(NoFeeds, env.pkg.frame, 1,
                                                   Len(env.pkg.frame))]
    /\ UNCHANGED << strategy, current_frame, now, rxq, bus, mailbox, last, hist >>

\* The frame arrives, byte by byte, at a station that polls send_or_receive.
Receive ==
    /\ env.stage = "packaged"
    /\ env.pkg.ok
    /\ env' = [env EXCEPT !.stage = "received",
                          !.polls = Polls_poll_all(NoPolls, env.pkg.frame, 1,
                                                   Len(env.pkg.frame))]
    /\ UNCHANGED << strategy, current_frame, now, rxq, bus, mailbox, last, hist >>

NextCodec == Package \/ Decode \/ Receive

SpecCodec == InitCodec /\ [][NextCodec]_vars

(***************************************************************************)
(* A Reader fed an arbitrary stream: noise bytes, broken frames and the     *)
(* frame of the tests.                                                     *)
(***************************************************************************)
MaxJunk == 2            \* any of JunkBytes while the cursor is below this

\* tests::MSG, b"\0loremipsum\0"
MSG == << 0, 108, 111, 114, 101, 109, 105, 112, 115, 117, 109, 0 >>

JunkBytes == {0, 1, 255}
FillBytes == {0, 1}

ReadResult_is_error(kind) ==
    kind \in {"Overflow", "FrameErrorCobs", "FrameErrorMagic", "FrameErrorHeader",
              "FrameErrorSize", "FrameErrorChecksum"}

\* The bytes on the wire for a naked frame body: checksum appended, COBS
\* encoded, sentinel at the end (what Writer::package does with its pushes).
RawFrame(body) ==
    CHOOSE f \in { Append(CobsEncoder_finalize(c, MAX_FRAME_LEN).dest, COBS_MARKER) :
                    c \in { CobsEncoder_push(CobsEncoder_new,
                                             body \o u16_to_be_bytes(CHECKSUM(body)),
                                             MAX_FRAME_LEN) } } : TRUE

\* The same with a checksum that is off by one.
RawFrameBadChecksum(body) ==
    CHOOSE f \in { Append(CobsEncoder_finalize(c, MAX_FRAME_LEN).dest, COBS_MARKER) :
                    c \in { CobsEncoder_push(CobsEncoder_new,
                                             body \o u16_to_be_bytes((CHECKSUM(body) + 1) % 65536),
                                             MAX_FRAME_LEN) } } : TRUE

\* The frame of the tests, a frame with a wrong magic word, a frame whose
\* header announces one byte more than it carries, and a frame with a wrong
\* magic word and a wrong checksum.
Scripts ==
    << Writer_package(ADDR_A, ADDR_B, MSG).frame,
       RawFrame(<< 107, 74 >> \o Header_pack(Header(ADDR_A, ADDR_B, Len(MSG))) \o MSG),
       RawFrame(MAGIC_WORD \o Header_pack(Header(ADDR_A, ADDR_B, Len(MSG) + 1)) \o MSG),
       RawFrameBadChecksum(<< 107, 74 >> \o Header_pack(Header(ADDR_A, ADDR_B, Len(MSG))) \o MSG) >>

ValidScript == 1

InitReader ==
    /\ InitStations
    /\ env = [reader |-> Reader_new, result |-> ReadResult("None"), byte |-> NoByte,
              script |-> 0, pos |-> 0, after_zero |-> FALSE, after_error |-> FALSE]

\* No frame is in the middle of being fed.
BetweenFrames == env.pos = (IF env.script = 0 THEN 0 ELSE Len(Scripts[env.script]))

\* feed(b) of a noise byte.
FeedJunk ==
    /\ BetweenFrames
    /\ \E b \in (IF env.reader.ptr < MaxJunk THEN JunkBytes ELSE FillBytes) :
       \E fd \in {Reader_feed(env.reader, b)} :
          env' = [reader |-> fd.reader, result |-> fd.result, byte |-> b,
                  script |-> 0, pos |-> 0, after_zero |-> FALSE, after_error |-> FALSE]
    /\ UNCHANGED << strategy, current_frame, now, rxq, bus, mailbox, last, hist >>

\* feed of the first byte of a frame, to a fresh reader, after a 0x00 or
\* after an error result.
StartFrame ==
    /\ BetweenFrames
    /\ env.byte \in {NoByte, 0} \/ ReadResult_is_error(env.result.kind)
    /\ \E k \in 1 .. Len(Scripts) :
       \E fd \in {Reader_feed(env.reader, Scripts[k][1])} :
          env' = [reader |-> fd.reader, result |-> fd.result, byte |-> Scripts[k][1],
                  script |-> k, pos |-> 1,
                  after_zero |-> env.byte = 0,
                  after_error |-> ReadResult_is_error(env.result.kind)]
    /\ UNCHANGED << strategy, current_frame, now, rxq, bus, mailbox, last, hist >>

\* feed of the next byte of the frame.
ContinueFrame ==
    /\ ~BetweenFrames
    /\ \E b \in {Scripts[env.script][env.pos + 1]} :
       \E fd \in {Reader_feed(env.reader, b)} :
          env' = [env EXCEPT !.reader = fd.reader, !.result = fd.result, !.byte = b,
                             !.pos = env.pos + 1]
    /\ UNCHANGED << strategy, current_frame, now, rxq, bus, mailbox, last, hist >>

NextReader == FeedJunk \/ StartFrame \/ ContinueFrame

SpecReader == InitReader /\ [][NextReader]_vars

(***************************************************************************)
(* One byte of a packaged frame changed on the wire                        *)
(* (tests::writer_reader_noise).                                           *)
(***************************************************************************)
MaxNoisePayloadLen == 1     \* every payload over NoiseFill up to this length

NoiseFill == {0, 1}

\* A payload that holds the encoding of a whole frame from 13 to 169 with the
\* payload << 1 >>, laid out so that the checksum of the outer frame is also
\* the checksum of the inner one.
NestedPayload == << 25, 75, 1, 10, 107, 73, 3, 74, 144, 4, 1 >>

NoisePayloads ==
    UNION {[1 .. k -> NoiseFill] : k \in 0 .. MaxNoisePayloadLen}
        \cup {MSG, NestedPayload}

\* The indices of the COBS code bytes of an encoded frame, from index i on.
RECURSIVE CobsCodes(_, _)
CobsCodes(frame, i) ==
    IF i > Len(frame) \/ frame[i] = 0 THEN {}
    ELSE {i} \cup CobsCodes(frame, i + frame[i])

InitNoise ==
    /\ InitStations
    /\ \E c \in NoisePayloads :
        env = [src |-> ADDR_A, dst |-> ADDR_B, payload |-> c, stage |-> "input",
               pkg |-> NoPackage, index |-> 0, value |-> 0, wire |-> <<>>,
               feeds |-> NoFeeds]

\* One byte in front of the sentinel gets another value.
Perturb ==
    /\ env.stage = "packaged"
    /\ env.pkg.ok
    /\ \E i \in 1 .. (Len(env.pkg.frame) - 1) :
       \E v \in Byte \ {env.pkg.frame[i]} :
          env' = [env EXCEPT !.stage = "perturbed", !.index = i, !.value = v,
                             !.wire = [env.pkg.frame EXCEPT ![i] = v]]
    /\ UNCHANGED << strategy, current_frame, now, rxq, bus, mailbox, last, hist >>

\* The bytes on the wire fed one by one to a fresh Reader.
FeedWire ==
    /\ env.stage = "perturbed"
    /\ env' = [env EXCEPT !.stage = "fed",
                          !.feeds = Feeds_feed_all(NoFeeds, env.wire, 1, Len(env.wire))]
    /\ UNCHANGED << strategy, current_frame, now, rxq, bus, mailbox, last, hist >>

NextNoise == Package \/ Perturb \/ FeedWire

SpecNoise == InitNoise /\ [][NextNoise]_vars
(***************************************************************************)
(* SpecHeader: Header::pack and Header::unpack on headers built as in      *)
(* tests::unchanged_header.  One field runs over all its 10 bit values     *)
(* while the other two take the values of HeaderCorners.                   *)
(***************************************************************************)
\* Every value a 10 bit field holds; ADDRESS_UNICAST is the largest.
HeaderField == 0 .. ADDRESS_UNICAST

HeaderCorners == {0, ADDR_A, ADDRESS_UNICAST}

HeaderInputs ==
    {Header(s, d, l) : s \in HeaderField, d \in HeaderCorners, l \in HeaderCorners}
        \cup {Header(s, d, l) : s \in HeaderCorners, d \in HeaderField, l \in HeaderCorners}
        \cup {Header(s, d, l) : s \in HeaderCorners, d \in HeaderCorners, l \in HeaderField}

InitHeader ==
    /\ InitStations
    /\ \E h \in HeaderInputs :
        env = [header |-> h, stage |-> "input", packed |-> <<>>, unpacked |-> h]

\* header.pack()
PackHeader ==
    /\ env.stage = "input"
    /\ env' = [env EXCEPT !.stage = "packed", !.packed = Header_pack(env.header)]
    /\ UNCHANGED << strategy, current_frame, now, rxq, bus, mailbox, last, hist >>

\* Header::unpack(&packed)
UnpackHeader ==
    /\ env.stage = "packed"
    /\ env' = [env EXCEPT !.stage = "unpacked", !.unpacked = Header_unpack(env.packed)]
    /\ UNCHANGED << strategy, current_frame, now, rxq, bus, mailbox, last, hist >>

NextHeader == PackHeader \/ UnpackHeader

SpecHeader == InitHeader /\ [][NextHeader]_vars

(***************************************************************************)
(* SpecGreedy: GreedyStrategy::send called again and again on one          *)
(* GreedyFrameInProgress, with a transceiver whose write returns Ok, or    *)
(* fails with WouldBlock or with another error, as it likes.               *)
(***************************************************************************)
MaxGreedyCalls == 26

WriteOutcomes == {"Ok", "WouldBlock", "Other"}

GreedyFrameInProgress_new(frame) == [frame |-> frame, ptr |-> 0]

\* first(): frame.0.get(ptr)
GreedyFrameInProgress_first(f) ==
    IF f.ptr < Len(f.frame) THEN f.frame[f.ptr + 1] ELSE NoByte

GreedyFrameInProgress_pop_first(f) == [f EXCEPT !.ptr = @ + 1]

\* send() which drops the byte when the write failed.
GreedyStrategy_send_pop_always(f, outcome) ==
    IF GreedyFrameInProgress_first(f) = NoByte
    THEN [frame |-> f, ret |-> "Ok", wrote |-> <<>>]
    ELSE [frame |-> GreedyFrameInProgress_pop_first(f),
          ret   |-> IF outcome # "Ok" THEN outcome
                    ELSE IF GreedyFrameInProgress_first(GreedyFrameInProgress_pop_first(f)) # NoByte
                         THEN "WouldBlock" ELSE "Ok",
          wrote |-> << GreedyFrameInProgress_first(f) >>]

\* send(): the frame in progress after the call, the value returned, and
\* the bytes handed to transceiver.write; outcome is what write returns.
GreedyStrategy_send(f, outcome) ==
    IF GreedyFrameInProgress_first(f) = NoByte
    THEN [frame |-> f, ret |-> "Ok", wrote |-> <<>>]
    ELSE IF outcome = "Ok"
         THEN [frame |-> GreedyFrameInProgress_pop_first(f),
               ret   |-> IF GreedyFrameInProgress_first(GreedyFrameInProgress_pop_first(f)) # NoByte
                         THEN "WouldBlock" ELSE "Ok",
               wrote |-> << GreedyFrameInProgress_first(f) >>]
         ELSE [frame |-> f, ret |-> outcome, wrote |-> << GreedyFrameInProgress_first(f) >>]

\* The frames sent: none of the bytes, and what Writer::package makes of an
\* empty message, of one zero byte and of the message of the tests.
GreedyFrames ==
    {<<>>} \cup {Writer_package(ADDR_A, ADDR_B, c).frame : c \in {<<>>, << 0 >>, MSG}}

InitGreedy ==
    /\ InitStations
    /\ \E fr \in GreedyFrames :
        env = [frame |-> GreedyFrameInProgress_new(fr), accepted |-> <<>>, calls |-> 0,
               ret |-> "None", wrote |-> <<>>, outcome |-> "None", failed |-> FALSE]

\* One call of send; the transceiver takes the byte only when write gives Ok.
GreedySend ==
    /\ env.calls < MaxGreedyCalls
    /\ \E outcome \in WriteOutcomes :
        \E r \in {GreedyStrategy_send(env.frame, outcome)} :
            env' = [frame    |-> r.frame,
                    accepted |-> IF outcome = "Ok" THEN env.accepted \o r.wrote
                                 ELSE env.accepted,
                    calls    |-> env.calls + 1,
                    ret      |-> r.ret,
                    wrote    |-> r.wrote,
                    outcome  |-> IF r.wrote = <<>> THEN "None" ELSE outcome,
                    failed   |-> env.failed \/ (r.wrote # <<>> /\ outcome # "Ok")]
    /\ UNCHANGED << strategy, current_frame, now, rxq, bus, mailbox, last, hist >>

NextGreedy == GreedySend

SpecGreedy == InitGreedy /\ [][NextGreedy]_vars

(***************************************************************************)
(* SpecStuck: one station whose caller polls send_or_receive for ever.     *)
(* The bus reads as idle, write gives Ok or WouldBlock, and every byte     *)
(* written comes back in order, unless the line loses what is on its way   *)
(* while the station waits in ConfirmingSendWithoutErrors; from then on    *)
(* read() gives WouldBlock.                                                *)
(***************************************************************************)
StuckMaxNow == 3        \* the clock of the polled station stops here

\* What read() gives: the oldest byte on its way back, if there is one.
StuckRead ==
    IF rxq[0] # <<>>
    THEN [rd |-> ReadByte(Head(rxq[0]).byte), from |-> Head(rxq[0]).from, rest |-> Tail(rxq[0])]
    ELSE [rd |-> ReadWouldBlock, from |-> {}, rest |-> <<>>]

StuckTrChoices ==
    {tr \in TrChoices : tr.idle /\ tr.write \in {"Ok", "WouldBlock"}}

InitStuck ==
    /\ InitStations
    /\ env = [dropped |-> FALSE, turn |-> 0]

\* The caller hands its frame to send.
SubmitStuck ==
    /\ ~current_frame[0].some
    /\ mailbox.send_progress[0] = 0
    /\ current_frame' = [current_frame EXCEPT ![0] = Some(CsmaFrameInProgress_new(FrameOf(0)))]
    /\ mailbox' = [mailbox EXCEPT !.send_progress[0] = 1]
    /\ last' = [last EXCEPT ![0] = [NoLast EXCEPT !.op = "new"]]
    /\ hist' = [hist EXCEPT ![0].checked = <<>>, ![0].sent = <<>>]
    /\ UNCHANGED << strategy, now, rxq, bus, env >>

\* One turn of the caller's loop: a call of send_or_receive; env.turn tells
\* one turn of the loop from the next.
PollStuck ==
    /\ current_frame[0].some
    /\ \E tr \in StuckTrChoices :
        \E c \in {StuckRead} :
        \E out \in {send_or_receive(strategy[0], current_frame[0].f, c.rd, tr, now)} :
            /\ out.fx.tried = NoByte => tr.write = "Ok"
            /\ ~out.fx.sampled => tr.dur = MinIdle
            /\ tr.err = 1
            /\ strategy' = [strategy EXCEPT ![0] = out.strategy]
            /\ current_frame' = [current_frame EXCEPT ![0] =
                    IF out.ret.kind = "SendComplete"
                    THEN Dropped(out.frame) ELSE Some(out.frame)]
            /\ rxq' = [rxq EXCEPT ![0] =
                    IF out.fx.wrote # NoByte
                    THEN Append(c.rest, [byte |-> out.fx.wrote, from |-> {0}]) ELSE c.rest]
            /\ env' = [env EXCEPT !.turn = 1 - env.turn]
            /\ last' = [last EXCEPT ![0] = Observed("send_or_receive", 0, c.rd, c.from, out)]
            /\ hist' = [hist EXCEPT ![0] = HistAfter(0, c.rd, c.from, out)]
    /\ UNCHANGED << now, bus, mailbox >>

\* The line loses the bytes that are on their way back.
LoseInFlight ==
    /\ current_frame[0].some
    /\ strategy[0].state.name = "ConfirmingSendWithoutErrors"
    /\ rxq[0] # <<>>
    /\ rxq' = [rxq EXCEPT ![0] = <<>>]
    /\ env' = [env EXCEPT !.dropped = TRUE]
    /\ UNCHANGED << strategy, current_frame, now, bus, mailbox, last, hist >>

\* The clock advances.
StuckClockTick ==
    /\ now < StuckMaxNow
    /\ now' = now + 1
    /\ UNCHANGED << strategy, current_frame, rxq, bus, mailbox, env, last, hist >>

NextStuck == SubmitStuck \/ PollStuck \/ LoseInFlight \/ StuckClockTick

\* The caller keeps polling as long as it has a frame to send.
SpecStuck == InitStuck /\ [][NextStuck]_vars /\ WF_vars(PollStuck)

(***************************************************************************)
(* SpecRecover: one station on a line that combines simultaneous writes    *)
(* (the OR of the bytes) and hands the result back as an ordinary byte.    *)
(* Every byte the station writes comes back to it; once, another station   *)
(* writes at the same time and the byte comes back garbled.  After the     *)
(* station has handled the mismatch the other station transmits its frame, *)
(* at a time when the station is not transmitting itself.  The caller      *)
(* polls for ever: send_or_receive while it holds a frame, receive         *)
(* otherwise.                                                              *)
(***************************************************************************)
\* bus_is_idle(): nothing is on its way and no frame is in the middle of its
\* transmission.
Line_bus_is_idle ==
    /\ rxq[0] = <<>>
    /\ env.foreign_ptr \in {0, Len(FrameOf(1))}

InitRecover ==
    /\ InitStations
    /\ env = [collided |-> FALSE, foreign_ptr |-> 0, turn |-> 0]

\* One turn of the caller's loop; env.turn tells one turn from the next.
PollRecover ==
    \E d \in Durations :
    \E c \in {StuckRead} :
    \E cf \in {current_frame[0]} :
    \E res \in {IF cf.some
                THEN send_or_receive(strategy[0], cf.f, c.rd,
                        [idle |-> Line_bus_is_idle, write |-> "Ok", dur |-> d, err |-> 1],
                        now)
                ELSE Party_receive(cf, receive(strategy[0], c.rd))} :
        /\ ~res.fx.sampled => d = MinIdle
        /\ strategy' = [strategy EXCEPT ![0] = res.strategy]
        /\ current_frame' = [current_frame EXCEPT ![0] =
                IF ~cf.some THEN cf
                ELSE IF res.ret.kind = "SendComplete"
                     THEN Dropped(res.frame) ELSE Some(res.frame)]
        /\ rxq' = [rxq EXCEPT ![0] =
                IF res.fx.wrote # NoByte
                THEN Append(c.rest, [byte |-> res.fx.wrote, from |-> {0}]) ELSE c.rest]
        /\ env' = [env EXCEPT !.turn = 1 - env.turn]
        /\ last' = [last EXCEPT ![0] =
                Observed(IF cf.some THEN "send_or_receive" ELSE "receive",
                         0, c.rd, c.from, res)]
        /\ hist' = [hist EXCEPT ![0] = HistAfter(0, c.rd, c.from, res)]
        /\ UNCHANGED << now, bus, mailbox >>

\* Another station writes a byte of its frame while a byte of the station is
\* on the line: what comes back is the OR of the two, and it differs from
\* the byte the station wrote.
Collide ==
    /\ ~env.collided
    /\ rxq[0] # <<>>
    /\ Head(rxq[0]).from = {0}
    /\ \E x \in Range(FrameOf(1)) :
        /\ Or(Head(rxq[0]).byte, x) # Head(rxq[0]).byte
        /\ rxq' = [rxq EXCEPT ![0] =
                << [byte |-> Or(Head(rxq[0]).byte, x), from |-> {0, 1}] >> \o Tail(rxq[0])]
    /\ env' = [env EXCEPT !.collided = TRUE]
    /\ UNCHANGED << strategy, current_frame, now, bus, mailbox, last, hist >>

\* The other station transmits the next byte of its frame.  It starts after
\* the station has handled the mismatch, and it writes while the line is
\* free and the station is not transmitting: there is no collision.
ForeignSend ==
    /\ env.collided
    /\ strategy[0].stats.frame_errors >= 1
    /\ env.foreign_ptr < Len(FrameOf(1))
    /\ rxq[0] = <<>>
    /\ ~Transmitting(strategy[0])
    /\ rxq' = [rxq EXCEPT ![0] =
            << [byte |-> FrameOf(1)[env.foreign_ptr + 1], from |-> {1}] >>]
    /\ env' = [env EXCEPT !.foreign_ptr = @ + 1]
    /\ UNCHANGED << strategy, current_frame, now, bus, mailbox, last, hist >>

NextRecover == SubmitStuck \/ PollRecover \/ Collide \/ ForeignSend \/ StuckClockTick

\* The caller keeps polling, and the other station sends when it can.
SpecRecover ==
    InitRecover /\ [][NextRecover]_vars /\ WF_vars(PollRecover) /\ WF_vars(ForeignSend)

(***************************************************************************)
(* Properties                                                              *)
(***************************************************************************)
Frame(p) == current_frame[p].f

\* The step holds a call made by party p.
CsmaCalled(p) ==
    \/ last'[p] # last[p]
    \/ strategy'[p] # strategy[p]
    \/ current_frame'[p] # current_frame[p]

SendOrReceiveCalled(p) == CsmaCalled(p) /\ last'[p].op = "send_or_receive"

\* C1: SendComplete is returned only by a call that drained the last byte of
\* the frame: the bytes checked since the frame's last reset are the whole
\* frame, in order, receive_ptr equals the frame's length, and the state
\* after the call is WaitForBusIdle.
C1_SendCompleteAfterWholeFrame ==
    \A p \in Parties :
        last[p].ret.kind = "SendComplete" =>
            /\ last[p].op = "send_or_receive"
            /\ last[p].rd.kind = "Byte"
            /\ last[p].pre \in {"Sending", "ConfirmingSendWithoutErrors"}
            /\ Frame(p).receive_ptr = Len(Frame(p).frame)
            /\ hist[p].checked = Frame(p).frame
            /\ strategy[p].state = WaitForBusIdle

C1_Witness ==
    \E p \in Parties : last[p].ret.kind = "SendComplete" /\ Len(hist[p].checked) = 10

\* C2: receive_ptr <= send_ptr <= length of the frame, in every state.
C2_IndexOrder ==
    \A p \in Parties :
        current_frame[p].some =>
            /\ Frame(p).receive_ptr <= Frame(p).send_ptr
            /\ Frame(p).send_ptr <= Len(Frame(p).frame)

\* C3: a frame returned as Received holds no byte the station wrote itself.
C3_ReceivedFromOthers ==
    \A p \in Parties : last[p].ret.kind = "Received" => p \notin last[p].origins

\* The call of the step drains a byte in Sending or
\* ConfirmingSendWithoutErrors that is not the next byte of the frame.
DrainsMismatch(p) ==
    /\ SendOrReceiveCalled(p)
    /\ strategy[p].state.name \in {"Sending", "ConfirmingSendWithoutErrors"}
    /\ last'[p].rd.kind = "Byte"
    /\ ~(/\ Frame(p).receive_ptr < Len(Frame(p).frame)
         /\ Frame(p).frame[Frame(p).receive_ptr + 1] = last'[p].rd.byte)

\* C4: a call that drains a mismatching byte adds one to frame_errors, resets
\* both indices, leaves the reader holding just that byte (nothing for
\* 0x00), moves to WaitForBusIdle, writes nothing and returns WouldBlock.
C4_MismatchStep ==
    \A p \in Parties :
        DrainsMismatch(p) =>
            /\ strategy'[p].stats.frame_errors = strategy[p].stats.frame_errors + 1
            /\ current_frame'[p].some
            /\ current_frame'[p].f.send_ptr = 0
            /\ current_frame'[p].f.receive_ptr = 0
            /\ strategy'[p].reader.ptr = (IF last'[p].rd.byte = 0 THEN 0 ELSE 1)
            /\ strategy'[p].reader.buf =
                    (IF last'[p].rd.byte = 0 THEN <<>> ELSE << last'[p].rd.byte >>)
            /\ strategy'[p].state = WaitForBusIdle
            /\ last'[p].fx.tried = NoByte
            /\ rxq'[p] = rxq[p] \/ rxq'[p] = Tail(rxq[p])
            /\ last'[p].ret = Ret("WouldBlock")

C4_Mismatch == [][C4_MismatchStep]_vars

C4_Witness ==
    \E p \in Parties :
        /\ last[p].op = "send_or_receive"
        /\ last[p].fx.check = "Mismatch"
        /\ last[p].pre = "ConfirmingSendWithoutErrors"
        /\ last[p].rd.byte # 0
        /\ strategy[p].reader.ptr = 1

\* C5: a call whose read() reports FrameError, in whatever state, adds one to
\* frame_errors, resets both indices, empties the reader, moves to
\* WaitForBusIdle, writes nothing and returns WouldBlock.
C5_FrameErrorStep ==
    \A p \in Parties :
        SendOrReceiveCalled(p) /\ last'[p].rd.kind = "FrameError" =>
            /\ strategy'[p].stats.frame_errors = strategy[p].stats.frame_errors + 1
            /\ current_frame'[p].f.send_ptr = 0
            /\ current_frame'[p].f.receive_ptr = 0
            /\ strategy'[p].reader.ptr = 0
            /\ strategy'[p].state = WaitForBusIdle
            /\ last'[p].fx.tried = NoByte
            /\ rxq'[p] = rxq[p]
            /\ last'[p].ret = Ret("WouldBlock")

C5_FrameError == [][C5_FrameErrorStep]_vars

C5_Witness ==
    \E p \in Parties :
        /\ last[p].op = "send_or_receive"
        /\ last[p].rd.kind = "FrameError"
        /\ last[p].pre = "Sending"
        /\ strategy[p].stats.frame_errors = 1

\* C6: a call whose read() reports an unrecoverable error e returns Other(e)
\* and changes neither the strategy nor the frame, and writes nothing.
C6_UnderlyingErrorStep ==
    \A p \in Parties :
        CsmaCalled(p) /\ last'[p].rd.kind = "UnderlyingError" =>
            /\ last'[p].op \in {"send_or_receive", "receive"}
            /\ last'[p].ret.kind = "Other"
            /\ last'[p].ret.err = last'[p].rd.err
            /\ strategy'[p] = strategy[p]
            /\ current_frame'[p] = current_frame[p]
            /\ last'[p].fx.tried = NoByte
            /\ rxq'[p] = rxq[p]

C6_UnderlyingError == [][C6_UnderlyingErrorStep]_vars

C6_Witness ==
    \E p \in Parties :
        /\ last[p].op = "send_or_receive"
        /\ last[p].rd = ReadUnderlyingError(2)
        /\ last[p].pre = "Sending"
        /\ last[p].ret.err = 2

\* C7 as stated: after a call that drained a byte in WaitForBusIdle,
\* BusIdleCooldown or StartSend the state is WaitForBusIdle.
C7_StateAfterByte ==
    \A p \in Parties :
        /\ last[p].op = "send_or_receive"
        /\ last[p].rd.kind = "Byte"
        /\ last[p].pre \in {"WaitForBusIdle", "BusIdleCooldown", "StartSend"}
        => strategy[p].state = WaitForBusIdle

\* C7: a call that drains a byte in WaitForBusIdle, BusIdleCooldown or
\* StartSend writes nothing and ends in WaitForBusIdle when the byte
\* completed a frame or bus_is_idle() reports false, and in BusIdleCooldown
\* with a newly sampled ready_at when bus_is_idle() reports true.
C7_ByteStep ==
    \A p \in Parties :
        /\ SendOrReceiveCalled(p)
        /\ last'[p].rd.kind = "Byte"
        /\ strategy[p].state.name \in {"WaitForBusIdle", "BusIdleCooldown", "StartSend"}
        => /\ last'[p].fx.tried = NoByte
           /\ \/ /\ last'[p].ret.kind = "Received"
                 /\ strategy'[p].state = WaitForBusIdle
              \/ /\ last'[p].ret = Ret("WouldBlock")
                 /\ last'[p].fx.idle = "Busy"
                 /\ strategy'[p].state = WaitForBusIdle
              \/ /\ last'[p].ret = Ret("WouldBlock")
                 /\ last'[p].fx.idle = "Idle"
                 /\ strategy'[p].state.name = "BusIdleCooldown"
                 /\ strategy'[p].state.ready_at - now \in MinIdle .. (MaxIdle - 1)

C7_ByteForcesWait == [][C7_ByteStep]_vars

C7_Witness ==
    \E p \in Parties :
        /\ last[p].op = "send_or_receive"
        /\ last[p].rd.kind = "Byte"
        /\ last[p].pre = "StartSend"
        /\ strategy[p].state.name = "BusIdleCooldown"

\* The frame station p is to get from the other station, as decoded.
Expected(p) == [header |-> Header(1 - p, p, 0), contents |-> <<>>]

GotExpected == \A p \in Parties : Expected(p) \in env.received[p]

NoFrameErrors == \A p \in Parties : strategy[p].stats.frame_errors = 0

Completed(p) == mailbox.send_progress[p] - (IF current_frame[p].some THEN 1 ELSE 0)

\* The fragment written in the last turn is marked as an error.
Collided == bus.next.some /\ bus.next.error

BothWrote == \A p \in Parties : last[p].fx.wrote # NoByte

C9_CollisionStep ==
    /\ now' = now + 1 =>
        /\ Collided' <=> BothWrote'
        /\ BothWrote' => bus'.next.contents = Or(last'[0].fx.wrote, last'[1].fx.wrote)
    /\ Collided /\ now' = now + 1 =>
        \A p \in Parties :
            /\ last'[p].rd = ReadFrameError
            /\ strategy'[p].stats.frame_errors = strategy[p].stats.frame_errors + 1
            /\ strategy'[p].state = WaitForBusIdle

SeesFrameError(p) == CsmaCalled(p) /\ last'[p].rd.kind = "FrameError"

\* C11: frame_errors never decreases; a call that sees a transceiver
\* FrameError or drains a loopback mismatch adds exactly one, and every other
\* step leaves it as it is.
C11_FrameErrorsStep ==
    \A p \in Parties :
        /\ strategy'[p].stats.frame_errors >= strategy[p].stats.frame_errors
        /\ strategy'[p].stats.frame_errors =
                strategy[p].stats.frame_errors
                    + (IF SeesFrameError(p) \/ DrainsMismatch(p) THEN 1 ELSE 0)

C11_FrameErrorsCount == [][C11_FrameErrorsStep]_vars

C11_Witness ==
    \E p \in Parties :
        /\ last[p].op = "receive"
        /\ last[p].rd.kind = "FrameError"
        /\ last[p].ret.kind = "WouldBlock"
        /\ strategy[p].stats.frame_errors = 1

\* C12: for every input with a payload of at most MAX_MESSAGE_LEN bytes, the
\* packaged frame fed byte by byte to a fresh Reader gives NotYet for every
\* byte but the last and FrameOK on the last, with the header (src, dst,
\* payload length) and the payload as contents.
C12_RoundTrip ==
    env.stage = "decoded" /\ Len(env.payload) <= MAX_MESSAGE_LEN =>
        /\ Len(env.feeds.kinds) = Len(env.pkg.frame)
        /\ \A i \in 1 .. (Len(env.pkg.frame) - 1) : env.feeds.kinds[i] = "NotYet"
        /\ env.feeds.kinds[Len(env.pkg.frame)] = "FrameOK"
        /\ env.feeds.last.kind = "FrameOK"
        /\ env.feeds.last.frame.header = Header(env.src, env.dst, Len(env.payload))
        /\ env.feeds.last.frame.contents = env.payload

C12_Witness ==
    /\ env.stage = "decoded"
    /\ Len(env.payload) = MAX_MESSAGE_LEN
    /\ \E i \in 1 .. Len(env.payload) : env.payload[i] = 0
    /\ \E i \in 1 .. Len(env.payload) : env.payload[i] = 255
    /\ env.feeds.last.kind = "FrameOK"
    /\ env.feeds.last.frame.contents = env.payload

\* The frame of the tests has been fed whole.
FedValidFrame == env.script = ValidScript /\ env.pos = Len(Scripts[ValidScript])

GotValidFrame ==
    /\ env.result.kind = "FrameOK"
    /\ env.result.frame = [header |-> Header(ADDR_A, ADDR_B, Len(MSG)), contents |-> MSG]

\* C13: whatever was fed before, after a 0x00 the cursor is 0, and a valid
\* frame fed right after a 0x00 is returned as FrameOK.
C13_Resync ==
    /\ env.byte = 0 => env.reader.ptr = 0
    /\ FedValidFrame /\ env.after_zero => GotValidFrame

\* C14: after a result that is an error the cursor is 0, and a valid frame
\* fed right after an error is returned as FrameOK.
C14_ClearAfterError ==
    /\ ReadResult_is_error(env.result.kind) => env.reader.ptr = 0
    /\ FedValidFrame /\ env.after_error => GotValidFrame

NoFrameOK == \A k \in 1 .. Len(env.feeds.kinds) : env.feeds.kinds[k] # "FrameOK"

\* C15 as stated: a frame with one byte in front of the sentinel changed is
\* never answered with FrameOK, on no byte of it.
C15_NoFrameOK == env.stage = "fed" => NoFrameOK

\* C15: a byte that is not a COBS code byte, changed to another non-zero
\* value, gives NotYet for every byte in front of the sentinel and
\* FrameErrorChecksum on the sentinel; the frame of the tests is never
\* answered with FrameOK, whatever byte is changed to whatever value.
C15_DataByteNoise ==
    env.stage = "fed" =>
        /\ env.value # 0 /\ env.index \notin CobsCodes(env.pkg.frame, 1) =>
                /\ Len(env.feeds.kinds) = Len(env.wire)
                /\ \A k \in 1 .. (Len(env.wire) - 1) : env.feeds.kinds[k] = "NotYet"
                /\ env.feeds.last.kind = "FrameErrorChecksum"
        /\ env.payload = MSG => NoFrameOK

C15_Witness ==
    /\ env.stage = "fed"
    /\ env.payload = MSG
    /\ env.value # 0
    /\ env.index \notin CobsCodes(env.pkg.frame, 1)
    /\ env.index > MAGIC_LEN + HEADER_LEN + 1
    /\ env.feeds.last.kind = "FrameErrorChecksum"

\* C16: package fails with TooLong for every payload longer than
\* MAX_MESSAGE_LEN.
C16_TooLong ==
    env.stage # "input" /\ Len(env.payload) > MAX_MESSAGE_LEN =>
        ~env.pkg.ok /\ env.pkg.err = "TooLong"

\* C17: package succeeds for every payload of at most MAX_MESSAGE_LEN bytes,
\* and the frame with its sentinel is at most MAX_FRAME_LEN, and at most
\* 1020, bytes long.
C17_WriterBound ==
    env.stage # "input" /\ Len(env.payload) <= MAX_MESSAGE_LEN =>
        /\ env.pkg.ok
        /\ Len(env.pkg.frame) <= MAX_FRAME_LEN
        /\ Len(env.pkg.frame) <= 1020

C17_Witness ==
    /\ env.stage = "packaged"
    /\ Len(env.payload) = MAX_MESSAGE_LEN
    /\ env.pkg.ok
    /\ Len(env.pkg.frame) = MAX_FRAME_LEN

\* C18: a packaged frame ends with 0x00 and holds no other 0x00.
C18_OneSentinel ==
    env.pkg.ok =>
        /\ Len(env.pkg.frame) >= 1
        /\ env.pkg.frame[Len(env.pkg.frame)] = COBS_MARKER
        /\ \A i \in 1 .. (Len(env.pkg.frame) - 1) : env.pkg.frame[i] # COBS_MARKER

C18_Witness ==
    /\ env.stage = "packaged"
    /\ env.pkg.ok
    /\ Len(env.payload) = MAX_MESSAGE_LEN
    /\ \A i \in 1 .. Len(env.payload) : env.payload[i] = 0
    /\ env.pkg.frame[Len(env.pkg.frame)] = COBS_MARKER

\* The n bits of v, most significant bit first.
BitsOf(v, n) == [i \in 1 .. n |-> (v \div (2 ^ (n - i))) % 2]

\* The 32 bits of src*2^22 + dst*2^12 + len*2^2: the fields do not overlap,
\* so the bits of the sum are the bits of the fields one after another,
\* followed by the two reserved bits.
HeaderBits(h) ==
    BitsOf(h.address_src, 10) \o BitsOf(h.address_dst, 10) \o BitsOf(h.len, 10) \o << 0, 0 >>

\* Byte k (1 is the most significant) of a word given by its 32 bits.
BigEndianByte(bits, k) ==
    LET b(j) == bits[8 * (k - 1) + j]
    IN  128 * b(1) + 64 * b(2) + 32 * b(3) + 16 * b(4) + 8 * b(5) + 4 * b(6) + 2 * b(7) + b(8)

\* The same word as a number, where it fits the integers of the checker.
HeaderWord(h) == h.address_src * 4194304 + h.address_dst * 4096 + h.len * 4

\* C19: a header with reserved = 0 packs to the 4 big-endian bytes of
\* src*2^22 + dst*2^12 + len*2^2, the header (13, 1023, 800) packs to
\* [0x03, 0x7F, 0xFC, 0x80], and unpacking the packed bytes gives the header
\* back, for every value of each 10 bit field.
C19_HeaderPacking ==
    /\ env.stage \in {"packed", "unpacked"} =>
        /\ Len(env.packed) = HEADER_LEN
        /\ \A k \in 1 .. HEADER_LEN : env.packed[k] = BigEndianByte(HeaderBits(env.header), k)
        /\ env.header.address_src < 512 =>
            \A k \in 1 .. HEADER_LEN :
                env.packed[k] = (HeaderWord(env.header) \div (256 ^ (HEADER_LEN - k))) % 256
        /\ env.header = Header(13, 1023, 800) => env.packed = << 3, 127, 252, 128 >>
    /\ env.stage = "unpacked" => env.unpacked = env.header

C19_Witness ==
    /\ env.stage = "unpacked"
    /\ env.header = Header(13, 1023, 800)
    /\ env.packed = << 3, 127, 252, 128 >>
    /\ env.unpacked = env.header

\* The step is a call of GreedyStrategy::send.
GreedySendCalled == env'.calls = env.calls + 1

\* C20: a call of GreedyStrategy::send hands at most one byte to the
\* transceiver, moves the frame index (by one) only when the write gave Ok,
\* and returns Ok only when the index is at the end of the frame; the bytes
\* the transceiver accepted so far are the frame's bytes up to the index, in
\* order and each once; a call made when the frame is complete writes
\* nothing and returns Ok.
C20_GreedySend ==
    [][GreedySendCalled =>
        /\ Len(env'.wrote) <= 1
        /\ env'.frame.frame = env.frame.frame
        /\ env'.frame.ptr # env.frame.ptr =>
            /\ env'.outcome = "Ok"
            /\ env'.frame.ptr = env.frame.ptr + 1
            /\ env'.wrote = << env.frame.frame[env'.frame.ptr] >>
        /\ env'.outcome \in {"WouldBlock", "Other"} =>
            /\ env'.frame.ptr = env.frame.ptr
            /\ env'.ret = env'.outcome
        /\ env'.ret = "Ok" => env'.frame.ptr = Len(env'.frame.frame)
        /\ env'.frame.ptr <= Len(env'.frame.frame)
        /\ env'.accepted = SubSeq(env'.frame.frame, 1, env'.frame.ptr)
        /\ env.frame.ptr = Len(env.frame.frame) =>
            /\ env'.wrote = <<>>
            /\ env'.ret = "Ok"
            /\ env'.accepted = env.accepted
            /\ env'.frame = env.frame]_vars

\* A frame pushed whole in spite of a failed write, and a call made after
\* that.
C20_Witness ==
    /\ env.frame.frame = Writer_package(ADDR_A, ADDR_B, MSG).frame
    /\ env.frame.ptr = Len(env.frame.frame)
    /\ env.accepted = env.frame.frame
    /\ env.failed
    /\ env.ret = "Ok"
    /\ env.wrote = <<>>
    /\ env.calls > Len(env.frame.frame) + 1

\* The state the send side of the call made in this step found: a byte
\* drained in WaitForBusIdle, BusIdleCooldown or StartSend sets the state to
\* WaitForBusIdle before the send side runs.
SendSideState(p) ==
    IF last'[p].rd.kind = "Byte"
        /\ last'[p].pre \notin {"Sending", "ConfirmingSendWithoutErrors"}
    THEN "WaitForBusIdle" ELSE last'[p].pre

\* The call made in this step took the state machine from state a to state b.
Entered(p, b) ==
    /\ strategy'[p].state.name = b
    /\ (SendSideState(p) # b \/ (b = "BusIdleCooldown" /\ last'[p].fx.sampled))

\* C21: a byte is handed to write() only by a call that started in Sending;
\* Sending is entered only from StartSend, StartSend only from
\* BusIdleCooldown and BusIdleCooldown only from WaitForBusIdle, each time in
\* a call in which bus_is_idle() reported true; the strategy starts in
\* WaitForBusIdle; and a call that finds the bus busy in BusIdleCooldown or
\* StartSend ends in WaitForBusIdle and writes nothing.
C21_CarrierSenseStep ==
    \A p \in Parties :
        SendOrReceiveCalled(p) =>
            /\ last'[p].fx.tried # NoByte => last'[p].pre = "Sending"
            /\ Entered(p, "Sending") =>
                SendSideState(p) = "StartSend" /\ last'[p].fx.idle = "Idle"
            /\ Entered(p, "StartSend") =>
                SendSideState(p) = "BusIdleCooldown" /\ last'[p].fx.idle = "Idle"
            /\ Entered(p, "BusIdleCooldown") =>
                SendSideState(p) = "WaitForBusIdle" /\ last'[p].fx.idle = "Idle"
            /\ (last'[p].pre \in {"BusIdleCooldown", "StartSend"} /\ last'[p].fx.idle = "Busy") =>
                /\ strategy'[p].state.name = "WaitForBusIdle"
                /\ last'[p].fx.tried = NoByte

C21_CarrierSense ==
    /\ CsmaStrategy_new.state.name = "WaitForBusIdle"
    /\ [][C21_CarrierSenseStep]_vars

\* The first byte of a frame written, by a call that started in Sending.
C21_Witness ==
    \E p \in Parties :
        /\ last[p].op = "send_or_receive"
        /\ last[p].pre = "Sending"
        /\ last[p].fx.wrote # NoByte
        /\ strategy[p].stats.frame_errors = 0
        /\ current_frame[p].f.send_ptr = 1

\* C22: the call that moves WaitForBusIdle to BusIdleCooldown stores
\* ready_at = now + U with MIN_IDLE <= U < MAX_IDLE, and no cooldown starts
\* without such a sample; BusIdleCooldown is left for StartSend only by a
\* call that found the bus idle and now >= ready_at, and an idle bus before
\* ready_at changes nothing; a call that finds the bus busy in
\* BusIdleCooldown ends in WaitForBusIdle, whether ready_at has passed or not.
C22_CooldownStep ==
    \A p \in Parties :
        SendOrReceiveCalled(p) =>
            /\ last'[p].fx.sampled =>
                /\ SendSideState(p) = "WaitForBusIdle"
                /\ strategy'[p].state.name = "BusIdleCooldown"
                /\ MinIdle <= strategy'[p].state.ready_at - now
                /\ strategy'[p].state.ready_at - now < MaxIdle
            /\ (strategy'[p].state.name = "BusIdleCooldown" /\ strategy'[p].state # strategy[p].state) =>
                last'[p].fx.sampled
            /\ Entered(p, "StartSend") =>
                /\ last'[p].pre = "BusIdleCooldown"
                /\ last'[p].fx.idle = "Idle"
                /\ now >= strategy[p].state.ready_at
            /\ (last'[p].pre = "BusIdleCooldown" /\ last'[p].rd.kind = "WouldBlock") =>
                strategy'[p].state =
                    IF last'[p].fx.idle = "Busy" THEN WaitForBusIdle
                    ELSE IF now >= strategy[p].state.ready_at THEN StartSend
                    ELSE strategy[p].state

C22_Cooldown == [][C22_CooldownStep]_vars

\* A cooldown that ran out: StartSend entered at the time of ready_at.
C22_Witness ==
    \E p \in Parties :
        /\ last[p].op = "send_or_receive"
        /\ last[p].pre = "BusIdleCooldown"
        /\ last[p].fx.idle = "Idle"
        /\ strategy[p].state.name = "StartSend"
        /\ now >= MinIdle

\* C23: in a call that started in Sending, a write that gave Ok moves
\* send_ptr on by exactly 1, the byte written being the one send_ptr stood
\* at, and the call ends in ConfirmingSendWithoutErrors exactly when send_ptr
\* reached the end of the frame; a write that gave WouldBlock or an error
\* leaves send_ptr and the state as they were.  The bytes accepted since the
\* frame's last reset are the first send_ptr bytes of the frame.
C23_SendProgressStep ==
    \A p \in Parties :
        /\ (SendOrReceiveCalled(p) /\ last'[p].fx.wrote # NoByte) =>
            /\ last'[p].pre = "Sending"
            /\ current_frame'[p].f.send_ptr = Frame(p).send_ptr + 1
            /\ last'[p].fx.wrote = Frame(p).frame[Frame(p).send_ptr + 1]
            /\ current_frame'[p].f.frame = Frame(p).frame
            /\ strategy'[p].state.name =
                    IF current_frame'[p].f.send_ptr = Len(Frame(p).frame)
                    THEN "ConfirmingSendWithoutErrors" ELSE "Sending"
        /\ (SendOrReceiveCalled(p) /\ last'[p].fx.tried # NoByte /\ last'[p].fx.wrote = NoByte) =>
            /\ last'[p].pre = "Sending"
            /\ current_frame'[p].f.send_ptr = Frame(p).send_ptr
            /\ strategy'[p].state = strategy[p].state
            /\ last'[p].ret.kind \in {"WouldBlock", "Other"}
        /\ (SendOrReceiveCalled(p) /\ current_frame[p].some
                /\ current_frame'[p].f.send_ptr # Frame(p).send_ptr) =>
            \/ last'[p].fx.wrote # NoByte
            \/ last'[p].fx.reset /\ current_frame'[p].f.send_ptr = 0
        /\ current_frame'[p].some =>
            hist'[p].sent = SubSeq(current_frame'[p].f.frame, 1, current_frame'[p].f.send_ptr)

C23_SendProgress == [][C23_SendProgressStep]_vars

\* A frame whose last byte was just accepted: every byte written, in order.
C23_Witness ==
    \E p \in Parties :
        /\ current_frame[p].some
        /\ strategy[p].state.name = "ConfirmingSendWithoutErrors"
        /\ hist[p].sent = Frame(p).frame
        /\ Len(hist[p].sent) > 1
        /\ last[p].fx.wrote # NoByte

\* C24: a byte drained in Sending while receive_ptr >= send_ptr, that is a
\* byte whose place in the frame has not been written yet, is a mismatch
\* even if it equals the frame's byte at receive_ptr: the call counts a frame
\* error, resets the frame and ends in WaitForBusIdle.
C24_UnsentByteIsMismatch ==
    [][\A p \in Parties :
        (/\ SendOrReceiveCalled(p)
         /\ current_frame[p].some
         /\ last'[p].pre = "Sending"
         /\ last'[p].rd.kind = "Byte"
         /\ Frame(p).receive_ptr >= Frame(p).send_ptr) =>
            /\ last'[p].fx.check = "Mismatch"
            /\ last'[p].fx.reset
            /\ strategy'[p].stats.frame_errors = strategy[p].stats.frame_errors + 1
            /\ strategy'[p].state.name = "WaitForBusIdle"]_vars

\* C25: a call that starts in ConfirmingSendWithoutErrors hands no byte to
\* write() and leaves send_ptr alone unless it resets the frame; the state
\* is left only for WaitForBusIdle, by a drained byte that completes the
\* frame (SendComplete), by a drained byte that does not match, or by a
\* FrameError of the transceiver; a matching byte that is not the last only
\* moves receive_ptr on by one.
C25_PassiveWaitStep ==
    \A p \in Parties :
        (SendOrReceiveCalled(p) /\ current_frame[p].some
            /\ last'[p].pre = "ConfirmingSendWithoutErrors") =>
            /\ last'[p].fx.tried = NoByte
            /\ last'[p].fx.idle = "NotAsked"
            /\ current_frame'[p].f.send_ptr # Frame(p).send_ptr =>
                last'[p].fx.reset /\ current_frame'[p].f.send_ptr = 0
            /\ strategy'[p].state.name # "ConfirmingSendWithoutErrors" =>
                /\ strategy'[p].state.name = "WaitForBusIdle"
                /\ \/ last'[p].ret.kind = "SendComplete" /\ last'[p].fx.check = "Match"
                   \/ last'[p].fx.check = "Mismatch" /\ last'[p].fx.reset
                   \/ last'[p].rd.kind = "FrameError" /\ last'[p].fx.reset
            /\ (last'[p].fx.check = "Match" /\ last'[p].ret.kind # "SendComplete") =>
                /\ strategy'[p] = strategy[p]
                /\ current_frame'[p].f =
                        [Frame(p) EXCEPT !.receive_ptr = Frame(p).receive_ptr + 1]
                /\ current_frame'[p].f.receive_ptr < Len(Frame(p).frame)
            /\ last'[p].rd.kind \in {"WouldBlock", "UnderlyingError"} =>
                /\ strategy'[p] = strategy[p]
                /\ current_frame'[p].f = Frame(p)

C25_PassiveWait == [][C25_PassiveWaitStep]_vars

\* A byte that matched while the station waited for the rest of its frame.
C25_Witness ==
    \E p \in Parties :
        /\ last[p].op = "send_or_receive"
        /\ last[p].pre = "ConfirmingSendWithoutErrors"
        /\ last[p].fx.check = "Match"
        /\ strategy[p].state.name = "ConfirmingSendWithoutErrors"
        /\ current_frame[p].some
        /\ Frame(p).send_ptr = Len(Frame(p).frame)
        /\ Frame(p).receive_ptr < Frame(p).send_ptr

\* C26: when the bytes of the frame that are still on their way are lost
\* while the station is in ConfirmingSendWithoutErrors, so that read() gives
\* WouldBlock from then on, a station that is polled again and again leaves
\* ConfirmingSendWithoutErrors at some time (to send the frame again).
C26_StuckSendRetries ==
    (env.dropped /\ strategy[0].state.name = "ConfirmingSendWithoutErrors")
        ~> (strategy[0].state.name # "ConfirmingSendWithoutErrors")

\* C27: the cursor stays within 0 .. MAX_FRAME_LEN; feed returns Overflow
\* exactly when the cursor is at the capacity and the byte is not 0x00, and
\* then leaves the reader as it was; a byte other than 0x00 fed to a reader
\* that is not full is stored at the cursor, moves the cursor on by 1 and
\* gives NotYet; 0x00 fed to a full reader is a frame boundary and sets the
\* cursor to 0.
C27_CursorAndOverflow ==
    [][/\ env'.reader.ptr \in 0 .. MAX_FRAME_LEN
       /\ (env'.result.kind = "Overflow") <=>
            (env.reader.ptr = MAX_FRAME_LEN /\ env'.byte # COBS_MARKER)
       /\ env'.result.kind = "Overflow" => env'.reader = env.reader
       /\ (env'.byte # COBS_MARKER /\ env.reader.ptr < MAX_FRAME_LEN) =>
            /\ env'.reader.ptr = env.reader.ptr + 1
            /\ env'.reader.buf = Append(env.reader.buf, env'.byte)
            /\ env'.result.kind = "NotYet"
       /\ (env'.byte = COBS_MARKER /\ env.reader.ptr = MAX_FRAME_LEN) =>
            env'.reader.ptr = 0]_vars

\* What the checks on the bytes in front of a sentinel are to give, in the
\* order of the claim: COBS, size, checksum, magic word, length.
SentinelResult(raw) ==
    LET dec == cobs_decode_in_place(raw)
        n   == Len(dec.out)
        crc_ok   == u16_from_be_bytes(SubSeq(dec.out, n - 1, n))
                        = CHECKSUM(SubSeq(dec.out, 1, n - 2))
        magic_ok == SubSeq(dec.out, 1, 2) = << 107, 73 >>
        header   == Header_unpack(SubSeq(dec.out, 3, 6))
        contents == SubSeq(dec.out, 7, n - 2)
    IN  CASE ~dec.ok -> ReadResult("FrameErrorCobs")
          [] dec.ok /\ n < 8 -> ReadResult("FrameErrorSize")
          [] dec.ok /\ n >= 8 /\ ~crc_ok -> ReadResult("FrameErrorChecksum")
          [] dec.ok /\ n >= 8 /\ crc_ok /\ ~magic_ok -> ReadResult("FrameErrorHeader")
          [] dec.ok /\ n >= 8 /\ crc_ok /\ magic_ok /\ Len(contents) # header.len ->
                ReadResult("FrameErrorSize")
          [] OTHER -> [kind |-> "FrameOK", frame |-> [header |-> header, contents |-> contents]]

\* C28: feed of a sentinel returns FrameOK exactly when the bytes in front
\* of it decode, are at least 8 bytes, carry the right checksum and the magic
\* word and as many payload bytes as the header says; otherwise it returns
\* the error of the first of these checks that fails, so a wrong checksum
\* hides a wrong magic word; FrameErrorMagic is never returned.
C28_SentinelChecks ==
    [][/\ env'.byte = COBS_MARKER => env'.result = SentinelResult(env.reader.buf)
       /\ env'.result.kind # "FrameErrorMagic"]_vars

\* C29: feed never returns FrameOK with more than MAX_MESSAGE_LEN content
\* bytes, so the conversion to the owned frame never fails, and a station
\* that polls send_or_receive never panics, whatever bytes arrive.
C29_ReceivedFits ==
    /\ (env.stage = "decoded" /\ env.feeds.last.kind = "FrameOK") =>
        /\ Len(env.feeds.last.frame.contents) <= MAX_MESSAGE_LEN
        /\ FrameRef_try_into(env.feeds.last.frame).ok
    /\ env.stage = "received" => env.polls.ret.kind # "Panic"

\* The kinds of the results of the feed calls made so far.
FeedKinds == {env.feeds.kinds[i] : i \in 1 .. Len(env.feeds.kinds)}

\* C30 as stated: MAX_FRAME_LEN, the COBS worst case for the naked frame of
\* at most 1014 bytes plus the sentinel, is 1020.
C30_MaxFrameLenIs1020 ==
    /\ MAX_NAKED_LEN = 1014
    /\ MAX_FRAME_LEN = cobs_max_encoding_length(MAX_NAKED_LEN) + 1
    /\ env.pkg.ok => Len(env.pkg.frame) <= MAX_FRAME_LEN
    /\ MAX_FRAME_LEN = 1020

\* C30: MAX_FRAME_LEN, the COBS worst case for the naked frame of at most
\* 1014 bytes plus the sentinel, is 1014 + 4 + 1 = 1019; no packaged frame is
\* longer (the Writer's buffer), and the Reader takes every packaged frame
\* without Overflow and with its cursor within MAX_FRAME_LEN (its buffer).
C30_MaxFrameLen ==
    /\ MAX_NAKED_LEN = 1014
    /\ cobs_max_encoding_length(MAX_NAKED_LEN) = 1014 + 4
    /\ MAX_FRAME_LEN = cobs_max_encoding_length(MAX_NAKED_LEN) + 1
    /\ MAX_FRAME_LEN = 1019
    /\ env.pkg.ok => Len(env.pkg.frame) <= MAX_FRAME_LEN
    /\ env.stage = "decoded" =>
        /\ env.feeds.reader.ptr <= MAX_FRAME_LEN
        /\ "Overflow" \notin FeedKinds

\* A frame that fills the buffers to the last byte, packaged and read back.
C30_Witness ==
    /\ env.stage = "decoded"
    /\ Len(env.pkg.frame) = MAX_FRAME_LEN
    /\ Len(env.feeds.kinds) = MAX_FRAME_LEN
    /\ env.feeds.last.kind = "FrameOK"

\* The last call handed the other station's frame to the caller.
HandedExpected ==
    /\ last[0].ret.kind \in {"Received", "Ok"}
    /\ last[0].ret.frame = Expected(0)

\* C31: after the station has handled a loopback mismatch, the frame the
\* other station then transmits without a collision is handed to the caller
\* at some time, as Received by send_or_receive or as Ok by receive, when the
\* caller keeps polling.
C31_RecoveryKeepsFrames ==
    (strategy[0].stats.frame_errors >= 1 /\ env.foreign_ptr = 0) ~> HandedExpected

\* The frame party q decodes from the bytes of the frame with the given
\* identifier that party p sends.
SimFrame(p, q, identifier) ==
    LET contents == Message_to_bytes(Message(p, q, identifier))
    IN  [header |-> Header(p, q, Len(contents)), contents |-> contents]

\* C32: in the simulation, the turn of the main loop in which a party gets
\* SendComplete for a frame finds that the party wrote every byte of the
\* frame once since the frame's last reset, that every byte it checked was
\* written by it alone in its tick, and that the other party's call of the
\* same turn returned that frame (Received from send_or_receive or Ok from
\* receive), made of bytes of the sender only, and handed it to the mailbox,
\* which had not got it before.
C32_SendCompleteStep ==
    \A p \in Parties :
        last'[p].ret.kind = "SendComplete" =>
            /\ current_frame[p].some
            /\ hist'[p].sent = Frame(p).frame
            /\ hist'[p].checked = Frame(p).frame
            /\ ~env'.shared[p]
            /\ \A q \in Parties \ {p} :
                /\ last'[q].ret.kind \in {"Received", "Ok"}
                /\ last'[q].ret.frame = SimFrame(p, q, mailbox.send_progress[p] - 1)
                /\ last'[q].origins = {p}
                /\ Writer_package(p, q, last'[q].ret.frame.contents).frame = Frame(p).frame
                /\ (mailbox.send_progress[p] - 1) \notin mailbox.receive_progress[p]
                /\ (mailbox.send_progress[p] - 1) \in mailbox'.receive_progress[p]

C32_SendCompleteDelivered == [][C32_SendCompleteStep]_vars

\* A party gets SendComplete, in a turn in which the other party decodes the
\* frame, after both had counted a frame error for a collision.
C32_Witness ==
    \E p \in Parties :
        /\ last[p].ret.kind = "SendComplete"
        /\ last[1 - p].ret.kind \in {"Received", "Ok"}
        /\ \A x \in Parties : strategy[x].stats.frame_errors >= 1
        /\ ~env.shared[p]
====
